---------------------------- MODULE Spec2Model ----------------------------
(***************************************************************************)
(* A model of nsf/jsondiff: Compare decodes two JSON documents and walks   *)
(* the two trees with context.printDiff, folding a verdict with            *)
(* context.result and rendering an annotated text.                         *)
(*                                                                         *)
(* Text is modelled as a sequence of non-empty fragments <<kind, text>>:   *)
(* "raw" fragments are written as they are, "quote" fragments stand for    *)
(* strconv.Quote of their text.  Writing the empty string appends nothing, *)
(* so that len(s) > 0 in the code is Len(s) > 0 here.                      *)
(***************************************************************************)
EXTENDS Integers, Sequences, FiniteSets, TLC

(***************************************************************************)
(* Bounds of the model.                                                    *)
(***************************************************************************)
MaxLen == 2

(***************************************************************************)
(* Difference (jsondiff.go:11-20).                                         *)
(***************************************************************************)
FullMatch == "FullMatch"
SupersetMatch == "SupersetMatch"
NoMatch == "NoMatch"
FirstArgIsInvalidJson == "FirstArgIsInvalidJson"
SecondArgIsInvalidJson == "SecondArgIsInvalidJson"
BothArgsAreInvalidJson == "BothArgsAreInvalidJson"

\* The iota value of a Difference.
Ord(d) ==
    CASE d = FullMatch -> 0
      [] d = SupersetMatch -> 1
      [] d = NoMatch -> 2
      [] d = FirstArgIsInvalidJson -> 3
      [] d = SecondArgIsInvalidJson -> 4
      [] d = BothArgsAreInvalidJson -> 5

(***************************************************************************)
(* The decoded JSON tree: the interface{} values json.Decoder yields with  *)
(* UseNumber (nil, bool, json.Number, string, []interface{},               *)
(* map[string]interface{}).                                                *)
(***************************************************************************)
Null == [kind |-> "null"]
Bool(x) == [kind |-> "bool", b |-> x]
Number(t) == [kind |-> "number", tok |-> t]
String(t) == [kind |-> "string", s |-> t]
Array(es) == [kind |-> "array", elems |-> es]
Object(f) == [kind |-> "object", fields |-> f]

\* reflect.TypeOf(v).Kind(): json.Number and string are both reflect.String.
Kind(v) ==
    CASE v.kind = "bool" -> "Bool"
      [] v.kind = "number" -> "String"
      [] v.kind = "string" -> "String"
      [] v.kind = "array" -> "Slice"
      [] v.kind = "object" -> "Map"

PresenceMarker == "<<PRESENCE>>"

(***************************************************************************)
(* Options and Tag.  A *Options is NilOptions or a record of the fields.   *)
(* A func field is "nil" or the name of the function it holds.             *)
(***************************************************************************)
Tag(b, e) == [Begin |-> b, End |-> e]
NilOptions == [ptr |-> "nil"]
TagNames == {"Normal", "Added", "Removed", "Changed", "Skipped"}

\* ctx.opts.<name>, the Tag a *Tag such as &ctx.opts.Normal points to.
TagOf(opts, name) ==
    CASE name = "Normal" -> opts.Normal
      [] name = "Added" -> opts.Added
      [] name = "Removed" -> opts.Removed
      [] name = "Changed" -> opts.Changed
      [] name = "Skipped" -> opts.Skipped

ZeroOptions ==
    [ptr |-> "set",
     Normal |-> Tag("", ""), Added |-> Tag("", ""), Removed |-> Tag("", ""),
     Changed |-> Tag("", ""), Skipped |-> Tag("", ""),
     SkippedSliceString |-> "nil", SkippedKeysString |-> "nil",
     Prefix |-> "", Indent |-> "", PrintTypes |-> FALSE,
     ChangedSeparator |-> "", CompareNumbers |-> "nil", SkipMatches |-> FALSE]

DefaultJSONOptions ==
    [ZeroOptions EXCEPT
        !.Added = Tag("\"prop-added\":{", "}"),
        !.Removed = Tag("\"prop-removed\":{", "}"),
        !.Changed = Tag("{\"changed\":[", "]}"),
        !.ChangedSeparator = ", ",
        !.Indent = "    "]

DefaultConsoleOptions ==
    [ZeroOptions EXCEPT
        !.Added = Tag("\\033[0;32m", "\\033[0m"),
        !.Removed = Tag("\\033[0;31m", "\\033[0m"),
        !.Changed = Tag("\\033[0;33m", "\\033[0m"),
        !.Skipped = Tag("\\033[0;90m", "\\033[0m"),
        !.SkippedSliceString = "console",
        !.SkippedKeysString = "console",
        !.ChangedSeparator = " => ",
        !.Indent = "    "]

DefaultHTMLOptions ==
    [ZeroOptions EXCEPT
        !.Added = Tag("<span style=\"background-color: #8bff7f\">", "</span>"),
        !.Removed = Tag("<span style=\"background-color: #fd7f7f\">", "</span>"),
        !.Changed = Tag("<span style=\"background-color: #fcff7f\">", "</span>"),
        !.ChangedSeparator = " => ",
        !.Indent = "    "]

\* Options without tags, with a prefix and an indentation.
PlainOptions ==
    [ZeroOptions EXCEPT !.Prefix = "> ", !.Indent = "  "]

\* The options of TestDiffString.
TestDiffStringOptions ==
    [DefaultConsoleOptions EXCEPT
        !.Added = Tag("(A:", ":A)"),
        !.Removed = Tag("(R:", ":R)"),
        !.Changed = Tag("(C:", ":C)"),
        !.Skipped = Tag("(S:", ":S)"),
        !.Indent = "  "]

\* Options that also mark the unchanged text, in elision mode.
NormalTagOptions ==
    [TestDiffStringOptions EXCEPT
        !.Normal = Tag("(N:", ":N)"),
        !.SkipMatches = TRUE]

(***************************************************************************)
(* Numbers.  Float64 is json.Number.Float64 on the tokens of the model.    *)
(***************************************************************************)
Float64(tok) ==
    CASE tok = "0" -> 0
      [] tok = "1" -> 1
      [] tok = "1.0" -> 1
      [] tok = "2" -> 2

Abs(x) == IF x < 0 THEN -x ELSE x
Max(x, y) == IF x > y THEN x ELSE y

\* The CompareNumbers of TestCompareFloatsWithEpsilon:
\*   math.Abs(a-b) < epsilon * math.Max(math.Abs(a), math.Abs(b))
\* with epsilon = 2^-52.  On integral values below 2^52 a difference is 0
\* or at least 1, and epsilon times the larger magnitude is below 1, so
\* the test is: no difference, and a positive right-hand side.
EpsilonCompare(an, bn) ==
    LET a == Float64(an)
        b == Float64(bn)
    IN  Abs(a - b) = 0 /\ Max(Abs(a), Abs(b)) > 0


CompareNumbersFuncs == {"nil", "epsilon"}

\* Options.CompareNumbers(a, b) for a non-nil func field.
CallCompareNumbers(f, a, b) ==
    CASE f = "epsilon" -> EpsilonCompare(a, b)

(***************************************************************************)
(* Text fragments.                                                         *)
(***************************************************************************)
Raw(s) == <<"raw", s>>
\* strconv.Quote(s)
Quote(s) == <<"quote", s>>

\* The SkippedSliceString and SkippedKeysString of DefaultConsoleOptions:
\* "...skipped 1 array element..." or "...skipped <n> array elements...".
ConsoleSkippedSlice(n) ==
    IF n = 1 THEN Raw("...skipped 1 array element...")
    ELSE <<"...skipped <n> array elements...", ToString(n)>>
ConsoleSkippedKeys(n) ==
    IF n = 1 THEN Raw("...skipped 1 object key...")
    ELSE <<"...skipped <n> object keys...", ToString(n)>>

(***************************************************************************)
(* context (jsondiff.go:116-121).  panicked records a run-time panic (a    *)
(* nil dereference or a call of a nil func): it is sticky, and a call that *)
(* panicked returns nothing.  iter is the order in which the Go runtime    *)
(* ranges over the keys of a map; reports is the history of the arguments  *)
(* of result.                                                              *)
(***************************************************************************)
NewContext(opts, iter) ==
    [opts |-> opts, level |-> 0, lastTag |-> "nil", diff |-> FullMatch,
     panicked |-> FALSE, iter |-> iter, reports |-> <<>>]

Writer(ctx, buf) == [ctx |-> ctx, buf |-> buf]

\* e, evaluated once x is: the statements of the code run in order, while
\* TLC evaluates on demand and would nest the whole history of a loop.
Then(x, e) == IF x = x THEN e ELSE e

\* buf.WriteString(s) of a fragment f standing for s.
WriteString(w, f) ==
    IF f[1] = "raw" /\ f[2] = "" THEN w ELSE [w EXCEPT !.buf = Append(@, f)]

\* A comparison that never calls the override.
compareNumbersLiteral(ctx, a, b) == a = b

compareNumbers(ctx, a, b) ==
    IF ctx.opts.CompareNumbers # "nil"
    THEN CallCompareNumbers(ctx.opts.CompareNumbers, a, b)
    ELSE a = b

terminateTag(w) ==
    IF w.ctx.lastTag # "nil"
    THEN [WriteString(w, Raw(TagOf(w.ctx.opts, w.ctx.lastTag).End))
            EXCEPT !.ctx.lastTag = "nil"]
    ELSE w

\* for i := 0; i < ctx.level; i++ { buf.WriteString(ctx.opts.Indent) }
RECURSIVE WriteIndent(_, _)
WriteIndent(w, n) ==
    IF n <= 0 THEN w
    ELSE WriteIndent(WriteString(w, Raw(w.ctx.opts.Indent)), n - 1)

\* The line break, the prefix and the indentation of newline.
WriteLineStart(w) ==
    WriteIndent(WriteString(WriteString(w, Raw("\n")), Raw(w.ctx.opts.Prefix)),
                w.ctx.level)

newline(w, s) ==
    terminateTag(WriteLineStart(terminateTag(WriteString(w, Raw(s)))))

key(w, k) == WriteString(WriteString(w, Quote(k)), Raw(": "))

writeType(w, v) ==
    CASE v.kind = "bool" -> WriteString(w, Raw("(boolean)"))
      [] v.kind = "number" -> WriteString(w, Raw("(number)"))
      [] v.kind = "string" -> WriteString(w, Raw("(string)"))
      [] v.kind = "array" -> WriteString(w, Raw("(array)"))
      [] v.kind = "object" -> WriteString(w, Raw("(object)"))
      [] OTHER -> WriteString(w, Raw("(null)"))

writeTypeMaybe(w, v) ==
    IF w.ctx.opts.PrintTypes
    THEN writeType(WriteString(w, Raw(" ")), v)
    ELSE w

\* The keys of map m in the order the runtime ranges over them.
RangeKeys(ctx, m) == SelectSeq(ctx.iter, LAMBDA k : k \in DOMAIN m)

\* ctx.level++ and ctx.level--.
LevelUp(w) == [w EXCEPT !.ctx.level = @ + 1]
LevelDown(w) == [w EXCEPT !.ctx.level = @ - 1]

\* What writeValue writes after an element: "," and a line break, or after
\* the last one the line break at the outer level.
AfterElem(w, isLast) ==
    IF ~isLast THEN newline(w, ",") ELSE newline(LevelDown(w), "")

\* What opens a container of n elements with the given bracket.
OpenBracket(w, n, bracket) ==
    IF n = 0 THEN WriteString(w, Raw(bracket))
    ELSE newline(LevelUp(w), bracket)

RECURSIVE writeValue(_, _, _)
RECURSIVE writeSliceElems(_, _, _)
RECURSIVE writeMapElems(_, _, _, _)

writeSliceNext(w, vv, i) == Then(w, writeSliceElems(w, vv, i))
writeMapNext(w, vv, ks, i) == Then(w, writeMapElems(w, vv, ks, i))

\* for i, v := range vv (jsondiff.go:170-178), from index i on.
writeSliceElems(w, vv, i) ==
    IF i > Len(vv) THEN w
    ELSE writeSliceNext(AfterElem(writeValue(w, vv[i], TRUE), i = Len(vv)),
                        vv, i + 1)

\* for k, v := range vv (jsondiff.go:192-202), from the i-th key of ks on.
writeMapElems(w, vv, ks, i) ==
    IF i > Len(ks) THEN w
    ELSE writeMapNext(AfterElem(writeValue(key(w, ks[i]), vv[ks[i]], TRUE),
                                i = Len(ks)),
                      vv, ks, i + 1)

\* The switch of writeValue (jsondiff.go:155-209).
writeValueSwitch(w, v, full) ==
    CASE v.kind = "bool" ->
            WriteString(w, Raw(IF v.b THEN "true" ELSE "false"))
      [] v.kind = "number" -> WriteString(w, Raw(v.tok))
      [] v.kind = "string" -> WriteString(w, Quote(v.s))
      [] v.kind = "array" ->
            IF full
            THEN WriteString(
                    writeSliceElems(OpenBracket(w, Len(v.elems), "["),
                                    v.elems, 1),
                    Raw("]"))
            ELSE WriteString(w, Raw("[]"))
      [] v.kind = "object" ->
            IF full
            THEN WriteString(
                    writeMapElems(OpenBracket(w, Cardinality(DOMAIN v.fields), "{"),
                                  v.fields, RangeKeys(w.ctx, v.fields), 1),
                    Raw("}"))
            ELSE WriteString(w, Raw("{}"))
      [] OTHER -> WriteString(w, Raw("null"))

writeValue(w, v, full) == writeTypeMaybe(writeValueSwitch(w, v, full), v)

\* buf.WriteString(ctx.opts.ChangedSeparator)
WriteSeparator(w) == WriteString(w, Raw(w.ctx.opts.ChangedSeparator))

writeMismatch(w, a, b) ==
    writeValue(WriteSeparator(writeValue(w, a, FALSE)), b, FALSE)

\* ctx.tag(buf, &ctx.opts.<name>): tags are compared by address.
tag(w, name) ==
    IF w.ctx.lastTag = name THEN w
    ELSE [WriteString(IF w.ctx.lastTag # "nil"
                      THEN WriteString(w, Raw(TagOf(w.ctx.opts, w.ctx.lastTag).End))
                      ELSE w,
                      Raw(TagOf(w.ctx.opts, name).Begin))
            EXCEPT !.ctx.lastTag = name]

\* A result in which the last report wins, whatever was reported before.
resultLastWins(diff, d) ==
    IF d = NoMatch THEN NoMatch
    ELSE IF d = SupersetMatch THEN SupersetMatch
    ELSE FullMatch

\* The new value of ctx.diff after ctx.result(d).
result(diff, d) ==
    IF d = NoMatch THEN NoMatch
    ELSE IF d = SupersetMatch /\ diff # NoMatch THEN SupersetMatch
    ELSE IF diff # NoMatch /\ diff # SupersetMatch THEN FullMatch
    ELSE diff

\* A report in which a mismatch counts as a superset match.
ReportLenient(w, d) ==
    IF w.ctx.panicked THEN w
    ELSE [w EXCEPT !.ctx.diff = result(@, IF d = NoMatch THEN SupersetMatch ELSE d),
                   !.ctx.reports = Append(@, d)]

\* ctx.result(d) on the context of a writer, with the history of reports.
\* A call that panicked makes no further report.
Report(w, d) ==
    IF w.ctx.panicked THEN w
    ELSE [w EXCEPT !.ctx.diff = result(@, d), !.ctx.reports = Append(@, d)]

\* A mismatch written under the Removed tag.
printMismatchAsRemoved(w, a, b) == writeMismatch(tag(w, "Removed"), a, b)

\* ctx.printMismatch(buf, a, b)
printMismatch(w, a, b) == writeMismatch(tag(w, "Changed"), a, b)

\* strfunc(n) for a non-nil summary func.
CallSkippedString(f, kind, n) ==
    CASE f = "console" /\ kind = "slice" -> ConsoleSkippedSlice(n)
      [] f = "console" /\ kind = "keys" -> ConsoleSkippedKeys(n)

\* The strfunc argument of printSkipped: ctx.opts.SkippedSliceString in
\* the loop over a slice, ctx.opts.SkippedKeysString in the loop over keys.
Strfunc(w, kind) ==
    IF kind = "slice" THEN w.ctx.opts.SkippedSliceString
    ELSE w.ctx.opts.SkippedKeysString

\* buf.WriteString(strfunc(*n)): calling a nil func panics.
WriteSkipped(w, n, kind) ==
    IF Strfunc(w, kind) = "nil"
    THEN [w EXCEPT !.ctx.panicked = TRUE]
    ELSE WriteString(w, CallSkippedString(Strfunc(w, kind), kind, n))

\* if !last { ctx.tag(buf, &ctx.opts.Normal); ctx.newline(buf, ",") }
AfterSkipped(w, last) ==
    IF ~last THEN newline(tag(w, "Normal"), ",") ELSE w

\* ctx.printSkipped(buf, &n, strfunc, last): the writer and the new *n.
printSkipped(w, n, kind, last) ==
    IF n = 0 THEN [w |-> w, n |-> n]
    ELSE [w |-> AfterSkipped(WriteSkipped(tag(w, "Skipped"), n, kind), last),
          n |-> 0]

\* return buf.String()
Finished(w) == [ctx |-> w.ctx, out |-> w.buf]

\* ctx.finalize(buf): the context and the string returned.
finalize(w) == Finished(terminateTag(w))

(***************************************************************************)
(* Object keys of the model, in the order sort.Strings puts them.          *)
(***************************************************************************)
KeyOrder == <<"a", "b">>
Keys == {KeyOrder[i] : i \in DOMAIN KeyOrder}

\* sort.Strings of the keys in set S.
SortStrings(S) == SelectSeq(KeyOrder, LAMBDA k : k \in S)

(***************************************************************************)
(* context.printDiff (jsondiff.go:287-507).  The result is the context as  *)
(* the call leaves it and the string it returns.  A loop carries st: the   *)
(* writer w, noDiffSpan n and seenDiff seen.  The body of a round yields   *)
(* the writer, noDiffSpan and equals.                                      *)
(***************************************************************************)
\* A mismatch exit that forgets to report.
MismatchExitSilent(w, a, b) == finalize(printMismatch(w, a, b))

\* A mismatch exit that reports a full match.
MismatchExitLenient(w, a, b) ==
    finalize(Report(printMismatch(w, a, b), FullMatch))

\* The mismatch exits: printMismatch, result(NoMatch), finalize.
MismatchExit(w, a, b) == finalize(Report(printMismatch(w, a, b), NoMatch))

\* Past the switch (jsondiff.go:501-506): the values match.
MatchExit(w, a) ==
    IF ~w.ctx.opts.SkipMatches
    THEN finalize(Report(writeValue(tag(w, "Normal"), a, TRUE), FullMatch))
    ELSE finalize(w)

\* Both nil (jsondiff.go:294-300).
NilMatchExit(w, a) ==
    IF ~w.ctx.opts.SkipMatches
    THEN finalize(Report(writeValue(tag(w, "Normal"), a, FALSE), FullMatch))
    ELSE finalize(w)

\* if ctx.opts.SkipMatches { if equals { noDiffSpan++ } else { seenDiff = true } }
CountRound(st, equals) ==
    IF st.w.ctx.opts.SkipMatches
    THEN [st EXCEPT !.n = IF equals THEN @ + 1 ELSE @,
                    !.seen = IF equals THEN @ ELSE TRUE]
    ELSE st

\* After the last element: ctx.level--; ctx.newline(buf, "").
LastRoundNoDedent(ps, seen) ==
    [w |-> newline(ps.w, ""), n |-> ps.n, seen |-> seen]

LastRound(ps, seen) ==
    [w |-> newline(LevelDown(ps.w), ""), n |-> ps.n, seen |-> seen]

\* The separator after a round (jsondiff.go:399-409, 480-490).
CloseRound(st, equals, isLast, kind) ==
    IF ~isLast
    THEN IF ~st.w.ctx.opts.SkipMatches \/ ~equals
         THEN [st EXCEPT !.w = newline(@, ",")]
         ELSE st
    ELSE LastRound(printSkipped(st.w, st.n, kind, TRUE), st.seen)

\* ctx.tag(buf, &ctx.opts.Normal) after the body of a round.
TagRound(st) == [st EXCEPT !.w = tag(@, "Normal")]

\* The end of one round of either loop (jsondiff.go:391-409, 471-490).
LoopTail(st, equals, isLast, kind) ==
    CloseRound(TagRound(CountRound(st, equals)), equals, isLast, kind)

\* The round of a loop whose body yielded bd.
EndRound(st, bd, isLast, kind) ==
    LoopTail([w |-> bd.w, n |-> bd.n, seen |-> st.seen], bd.equals, isLast, kind)

\* The caller goes on with the context the callee left.
Adopt(w, c) == [w EXCEPT !.ctx = c]

\* buf.WriteString(diff) after printSkipped (jsondiff.go:374-376).
SliceDiff(ps, diff) ==
    [w |-> [ps.w EXCEPT !.buf = @ \o diff], n |-> ps.n, equals |-> FALSE]

\* ctx.key(buf, k); buf.WriteString(diff) after printSkipped
\* (jsondiff.go:451-454).
MapDiff(ps, k, diff) ==
    [w |-> [key(ps.w, k) EXCEPT !.buf = @ \o diff], n |-> ps.n, equals |-> FALSE]

\* An index on both sides, r being what printDiff returned for it.
SliceBoth(st, r) ==
    IF Len(r.out) > 0
    THEN SliceDiff(printSkipped(Adopt(st.w, r.ctx), st.n, "slice", FALSE), r.out)
    ELSE [w |-> Adopt(st.w, r.ctx), n |-> st.n, equals |-> TRUE]

\* A key on both sides, r being what printDiff returned for it.
MapBoth(st, k, r) ==
    IF Len(r.out) > 0
    THEN MapDiff(printSkipped(Adopt(st.w, r.ctx), st.n, "keys", FALSE), k, r.out)
    ELSE [w |-> Adopt(st.w, r.ctx), n |-> st.n, equals |-> TRUE]

\* An index on one side only taken for a removal, whichever side it is on.
SliceOnlyAsRemoved(ps, v, name, d) ==
    [w |-> Report(writeValue(tag(ps.w, name), v, TRUE), SupersetMatch),
     n |-> ps.n, equals |-> FALSE]

\* An index on one side only (jsondiff.go:378-390), after printSkipped:
\* tagged Removed and reported SupersetMatch, or Added and NoMatch.
SliceOnly(ps, v, name, d) ==
    [w |-> Report(writeValue(tag(ps.w, name), v, TRUE), d),
     n |-> ps.n, equals |-> FALSE]

\* A key on one side only written under whatever tag is open.
MapOnlyUntagged(ps, k, v, name, d) ==
    [w |-> Report(writeValue(key(ps.w, k), v, TRUE), d),
     n |-> ps.n, equals |-> FALSE]

\* A key on one side only (jsondiff.go:456-470), after printSkipped.
MapOnly(ps, k, v, name, d) ==
    [w |-> Report(writeValue(key(tag(ps.w, name), k), v, TRUE), d),
     n |-> ps.n, equals |-> FALSE]

\* if ctx.opts.SkipMatches && !seenDiff { return "" }; return ctx.finalize(&buf)
ContainerExit(w, seen) ==
    IF w.ctx.opts.SkipMatches /\ ~seen
    THEN [ctx |-> w.ctx, out |-> <<>>]
    ELSE finalize(w)

\* buf.WriteString("]"); ctx.writeTypeMaybe(&buf, a), and the return.
CloseExit(st, a, bracket) ==
    ContainerExit(writeTypeMaybe(WriteString(st.w, Raw(bracket)), a), st.seen)

\* A string comparison in which the marker on the first side matches anything.
stringsDifferPresence(aa, bb) == aa # bb /\ aa # PresenceMarker

\* aa != bb on two strings (jsondiff.go:341).
stringsDiffer(aa, bb) == aa # bb

RECURSIVE printDiff(_, _, _)
RECURSIVE SliceLoop(_, _, _, _)
RECURSIVE MapLoop(_, _, _, _, _)

SliceNext(st, sa, sb, i) == Then(st, SliceLoop(st, sa, sb, i))
MapNext(st, ma, mb, keys, i) == Then(st, MapLoop(st, ma, mb, keys, i))

\* A round over a slice that takes an index of the first side alone for an
\* addition.
SliceBodyRemovedAsAdded(st, sa, sb, i) ==
    IF i <= Len(sa) /\ i <= Len(sb)
    THEN SliceBoth(st, printDiff(st.w.ctx, sa[i], sb[i]))
    ELSE SliceOnly(printSkipped(st.w, st.n, "slice", FALSE),
                   IF i <= Len(sa) THEN sa[i] ELSE sb[i], "Added", NoMatch)

\* The if-else chain of a round over a slice (jsondiff.go:371-390).
SliceBody(st, sa, sb, i) ==
    IF i <= Len(sa) /\ i <= Len(sb)
    THEN SliceBoth(st, printDiff(st.w.ctx, sa[i], sb[i]))
    ELSE IF i <= Len(sa)
    THEN SliceOnly(printSkipped(st.w, st.n, "slice", FALSE), sa[i],
                   "Removed", SupersetMatch)
    ELSE SliceOnly(printSkipped(st.w, st.n, "slice", FALSE), sb[i],
                   "Added", NoMatch)

\* The if-else chain of a round over the keys (jsondiff.go:448-470).
MapBody(st, ma, mb, k) ==
    IF k \in DOMAIN ma /\ k \in DOMAIN mb
    THEN MapBoth(st, k, printDiff(st.w.ctx, ma[k], mb[k]))
    ELSE IF k \in DOMAIN ma
    THEN MapOnly(printSkipped(st.w, st.n, "keys", FALSE), k, ma[k],
                 "Removed", SupersetMatch)
    ELSE MapOnly(printSkipped(st.w, st.n, "keys", FALSE), k, mb[k],
                 "Added", NoMatch)

\* for i := 0; i < max; i++ (jsondiff.go:369-410), from the i-th round on.
SliceLoop(st, sa, sb, i) ==
    IF i > Max(Len(sa), Len(sb)) THEN st
    ELSE SliceNext(EndRound(st, SliceBody(st, sa, sb, i),
                            i = Max(Len(sa), Len(sb)), "slice"),
                   sa, sb, i + 1)

\* for i, k := range keys (jsondiff.go:444-491), from the i-th key on.
MapLoop(st, ma, mb, keys, i) ==
    IF i > Len(keys) THEN st
    ELSE MapNext(EndRound(st, MapBody(st, ma, mb, keys[i]),
                          i = Len(keys), "keys"),
                 ma, mb, keys, i + 1)

\* The loop state before the first round over a slice (jsondiff.go:348-368).
SliceStart(w, a, b) ==
    [w |-> OpenBracket(tag(w, "Normal"),
                       Max(Len(a.elems), Len(b.elems)), "["),
     n |-> 0,
     seen |-> Max(Len(a.elems), Len(b.elems)) > 0
              /\ Len(a.elems) # Len(b.elems)]

\* case reflect.Slice (jsondiff.go:347-418).
SliceCase(w, a, b) ==
    CloseExit(SliceLoop(SliceStart(w, a, b), a.elems, b.elems, 1), a, "]")

\* keys: the sorted union of the keys of both maps (jsondiff.go:421-432).
UnionKeys(ma, mb) == SortStrings(DOMAIN ma \cup DOMAIN mb)

\* The loop state before the first round over the keys (jsondiff.go:433-443).
MapStart(w, a, b) ==
    [w |-> OpenBracket(tag(w, "Normal"),
                       Len(UnionKeys(a.fields, b.fields)), "{"),
     n |-> 0, seen |-> FALSE]

\* case reflect.Map (jsondiff.go:419-499).
MapCase(w, a, b) ==
    CloseExit(
        MapLoop(MapStart(w, a, b),
                a.fields, b.fields, UnionKeys(a.fields, b.fields), 1),
        a, "}")

printDiff(ctx, a, b) ==
    IF ctx.opts.ptr = "nil"
    THEN \* every path starts by reading a field of *ctx.opts
         [ctx |-> [ctx EXCEPT !.panicked = TRUE], out |-> <<>>]
    ELSE IF a.kind = "null" \/ b.kind = "null"
    THEN IF a.kind = "null" /\ b.kind = "null"
         THEN NilMatchExit(Writer(ctx, <<>>), a)
         ELSE MismatchExit(Writer(ctx, <<>>), a, b)
    ELSE IF Kind(a) # Kind(b)
    THEN MismatchExit(Writer(ctx, <<>>), a, b)
    ELSE CASE Kind(a) = "Bool" ->
                IF a.b # b.b THEN MismatchExit(Writer(ctx, <<>>), a, b)
                ELSE MatchExit(Writer(ctx, <<>>), a)
           [] Kind(a) = "String" ->
                IF a.kind = "number"
                THEN IF b.kind # "number" \/ ~compareNumbers(ctx, a.tok, b.tok)
                     THEN MismatchExit(Writer(ctx, <<>>), a, b)
                     ELSE MatchExit(Writer(ctx, <<>>), a)
                ELSE IF b.kind # "string" \/ stringsDiffer(a.s, b.s)
                     THEN MismatchExit(Writer(ctx, <<>>), a, b)
                     ELSE MatchExit(Writer(ctx, <<>>), a)
           [] Kind(a) = "Slice" -> SliceCase(Writer(ctx, <<>>), a, b)
           [] Kind(a) = "Map" -> MapCase(Writer(ctx, <<>>), a, b)

(***************************************************************************)
(* Compare (jsondiff.go:534-557).  An input is the byte buffer of a JSON   *)
(* document, given by the tree it decodes to, or Malformed, a buffer the   *)
(* decoder rejects.                                                        *)
(***************************************************************************)
Malformed == [kind |-> "malformed"]

\* da.Decode(&av) reports an error.
DecodeErr(x) == x.kind = "malformed"

\* What a call hands back: a (Difference, string) pair, or a panic.
Returned(d, text) == [how |-> "return", diff |-> d, text |-> text]
Panicked == [how |-> "panic"]
NotReturned == [how |-> "running"]

\* The context before Compare creates one.
NoContext == [opts |-> NilOptions, level |-> 0, lastTag |-> "nil",
              diff |-> FullMatch, panicked |-> FALSE, iter |-> <<>>,
              reports |-> <<>>]

\* The orders in which the runtime may range over the keys of a map.
IterOrders == {p \in [1..Len(KeyOrder) -> Keys] :
                  \A i, j \in 1..Len(KeyOrder) : i # j => p[i] # p[j]}

\* Early returns that blame the other argument.
InvalidReturnSwapped(x, y) ==
    IF DecodeErr(x) /\ DecodeErr(y)
    THEN Returned(BothArgsAreInvalidJson, <<Raw("both arguments are invalid json")>>)
    ELSE IF DecodeErr(x)
    THEN Returned(SecondArgIsInvalidJson, <<Raw("second argument is invalid json")>>)
    ELSE Returned(FirstArgIsInvalidJson, <<Raw("first argument is invalid json")>>)

\* The early returns of Compare (jsondiff.go:542-550).
InvalidReturn(x, y) ==
    IF DecodeErr(x) /\ DecodeErr(y)
    THEN Returned(BothArgsAreInvalidJson, <<Raw("both arguments are invalid json")>>)
    ELSE IF DecodeErr(x)
    THEN Returned(FirstArgIsInvalidJson, <<Raw("first argument is invalid json")>>)
    ELSE Returned(SecondArgIsInvalidJson, <<Raw("second argument is invalid json")>>)

\* A walk that hands back the verdict and loses the text.
WalkTextless(av, bv, o, iter) ==
    LET r == printDiff(NewContext(o, iter), av, bv)
    IN  [ctx |-> [r.ctx EXCEPT !.iter = <<>>],
         ret |-> IF r.ctx.panicked THEN Panicked
                 ELSE Returned(r.ctx.diff, <<>>)]

\* jsondiff.go:552-556 on decoded trees: the context at the end of the
\* call and what the call hands back.
Walk(av, bv, o, iter) ==
    LET r == printDiff(NewContext(o, iter), av, bv)
    IN  [ctx |-> [r.ctx EXCEPT !.iter = <<>>],
         ret |-> IF r.ctx.panicked THEN Panicked
                 ELSE Returned(r.ctx.diff, r.out)]

(***************************************************************************)
(* Documents and options of the model.                                     *)
(***************************************************************************)
Scalars ==
    {Null, Bool(TRUE), Bool(FALSE),
     Number("0"), Number("1"), Number("1.0"),
     String(""), String("1"), String("hello"), String(PresenceMarker)}

\* The sequences over S of length at most n.
SeqsUpTo(S, n) == UNION {[1..m -> S] : m \in 0..n}

\* The maps from some of the keys to S.
MapsOver(S) == UNION {[D -> S] : D \in SUBSET Keys}

ArrLeaves == {Null, Number("1"), String("hello"), String(PresenceMarker)}
ObjLeaves == {Null, Bool(FALSE), Number("0"), Number("1.0"), String(""),
              String(PresenceMarker)}
Inner == {Array(<<>>), Array(<<String(PresenceMarker)>>),
          Object([k \in Keys |-> IF k = "a" THEN Number("1") ELSE String("hello")])}
NestLeaves == Inner \cup {Number("1"), String(PresenceMarker)}

Docs ==
    Scalars
    \cup {Array(es) : es \in SeqsUpTo(ArrLeaves, MaxLen)}
    \cup {Object(f) : f \in MapsOver(ObjLeaves)}
    \cup {Array(es) : es \in SeqsUpTo(Inner, MaxLen)}
    \cup {Object(f) : f \in MapsOver(NestLeaves)}

Inputs == Docs \cup {Malformed}

OptionsSet ==
    {NilOptions, PlainOptions, DefaultConsoleOptions, TestDiffStringOptions,
     [TestDiffStringOptions EXCEPT !.SkipMatches = TRUE],
     [TestDiffStringOptions EXCEPT !.SkipMatches = TRUE,
                                   !.SkippedSliceString = "nil",
                                   !.SkippedKeysString = "nil"],
     [TestDiffStringOptions EXCEPT !.PrintTypes = TRUE],
     [TestDiffStringOptions EXCEPT !.CompareNumbers = "epsilon"],
     NormalTagOptions}

\* The options of the walk taken one report at a time.
WalkOptionsSet ==
    {ZeroOptions,
     [TestDiffStringOptions EXCEPT !.SkipMatches = TRUE],
     [TestDiffStringOptions EXCEPT !.CompareNumbers = "epsilon"]}

(***************************************************************************)
(* One call of Compare as a state machine: the arguments, the position of  *)
(* the call, its context and what it hands back.  todo is used by the      *)
(* specification that takes the walk one report at a time: the reports     *)
(* the rest of the walk makes, and what the walk renders.                  *)
(***************************************************************************)
VARIABLES a, b, opts, pc, ctx, ret, todo

vars == <<a, b, opts, pc, ctx, ret, todo>>

NoTodo == [reports |-> <<>>, out |-> <<>>, panicked |-> FALSE]

Init ==
    /\ a \in Inputs
    /\ b \in Inputs
    /\ opts \in OptionsSet
    /\ pc = "call"
    /\ ctx = NoContext
    /\ ret = NotReturned
    /\ todo = NoTodo

\* Compare returns early: an argument does not decode.
CompareInvalid ==
    /\ pc = "call"
    /\ DecodeErr(a) \/ DecodeErr(b)
    /\ pc' = "done"
    /\ ret' = InvalidReturn(a, b)
    /\ UNCHANGED <<a, b, opts, ctx, todo>>

\* Compare decodes both arguments and walks the trees.
CompareValid ==
    /\ pc = "call"
    /\ ~DecodeErr(a) /\ ~DecodeErr(b)
    /\ \E iter \in IterOrders :
          LET r == Walk(a, b, opts, iter)
          IN  /\ ctx' = r.ctx
              /\ ret' = r.ret
    /\ pc' = "done"
    /\ UNCHANGED <<a, b, opts, todo>>

Next == CompareInvalid \/ CompareValid

Spec == Init /\ [][Next]_vars

(***************************************************************************)
(* The same call with the walk taken one ctx.result at a time.  printDiff  *)
(* never reads ctx.diff, so the reports it makes and the text it renders   *)
(* do not depend on the verdict folded so far: WalkStart runs the walk for *)
(* its reports and text, WalkResult folds the next report into ctx.diff,   *)
(* WalkReturn returns ctx.diff.                                            *)
(***************************************************************************)
InitWalk ==
    /\ a \in Docs
    /\ b \in Docs
    /\ opts \in WalkOptionsSet
    /\ pc = "call"
    /\ ctx = NoContext
    /\ ret = NotReturned
    /\ todo = NoTodo

WalkStart ==
    /\ pc = "call"
    /\ \E iter \in IterOrders :
          LET r == printDiff(NewContext(opts, iter), a, b)
          IN  todo' = [reports |-> r.ctx.reports, out |-> r.out,
                       panicked |-> r.ctx.panicked]
    /\ ctx' = NewContext(opts, <<>>)
    /\ pc' = "walking"
    /\ UNCHANGED <<a, b, opts, ret>>

WalkResult ==
    /\ pc = "walking"
    /\ todo.reports # <<>>
    /\ ctx' = [ctx EXCEPT !.diff = result(@, Head(todo.reports)),
                          !.reports = Append(@, Head(todo.reports))]
    /\ todo' = [todo EXCEPT !.reports = Tail(@)]
    /\ UNCHANGED <<a, b, opts, pc, ret>>

WalkReturn ==
    /\ pc = "walking"
    /\ todo.reports = <<>>
    /\ ret' = IF todo.panicked THEN Panicked ELSE Returned(ctx.diff, todo.out)
    /\ pc' = "done"
    /\ UNCHANGED <<a, b, opts, ctx, todo>>

NextWalk == WalkStart \/ WalkResult \/ WalkReturn

SpecWalk == InitWalk /\ [][NextWalk]_vars

(***************************************************************************)
(* Vocabulary of the properties.                                           *)
(***************************************************************************)
\* Both arguments decode.
BothValid == ~DecodeErr(a) /\ ~DecodeErr(b)

\* The call is over and handed back a (Difference, string) pair.
HasReturned == pc = "done" /\ ret.how = "return"

\* The most severe of the reports rs, FullMatch when there is none.
MaxSeverity(rs) ==
    IF \E i \in DOMAIN rs : rs[i] = NoMatch THEN NoMatch
    ELSE IF \E i \in DOMAIN rs : rs[i] = SupersetMatch THEN SupersetMatch
    ELSE FullMatch

Min(x, y) == IF x <= y THEN x ELSE y

\* The pairs of nodes the walk of x against y calls printDiff on.
RECURSIVE Reached(_, _)
Reached(x, y) ==
    {<<x, y>>} \cup
    (IF x.kind = "array" /\ y.kind = "array"
     THEN UNION {Reached(x.elems[i], y.elems[i]) :
                    i \in 1..Min(Len(x.elems), Len(y.elems))}
     ELSE IF x.kind = "object" /\ y.kind = "object"
     THEN UNION {Reached(x.fields[k], y.fields[k]) :
                    k \in DOMAIN x.fields \cap DOMAIN y.fields}
     ELSE {})

(***************************************************************************)
(* C1.  During one Compare call on two valid documents the accumulated     *)
(* verdict ctx.diff never decreases in severity (FullMatch < SupersetMatch *)
(* < NoMatch): once a node has reported NoMatch it stays NoMatch, after    *)
(* every report it is the most severe report made so far (FullMatch when   *)
(* there is none), and the verdict returned is the most severe of all the  *)
(* reports of the walk.                                                    *)
(***************************************************************************)
C1_VerdictNeverDecreases ==
    [][/\ Ord(ctx'.diff) >= Ord(ctx.diff)
       /\ (ctx.diff = NoMatch => ctx'.diff = NoMatch)
       /\ ctx'.diff = MaxSeverity(ctx'.reports)
       /\ (pc' = "done" /\ ret'.how = "return"
              => /\ todo'.reports = <<>>
                 /\ ret'.diff = MaxSeverity(ctx'.reports))]_vars

\* A call returned NoMatch after a node reported NoMatch and a later node
\* reported SupersetMatch.
C1_Witness ==
    /\ HasReturned
    /\ ret.diff = NoMatch
    /\ \E i, j \in DOMAIN ctx.reports :
          /\ i < j
          /\ ctx.reports[i] = NoMatch
          /\ ctx.reports[j] = SupersetMatch

(***************************************************************************)
(* C2.  Reflexivity: for every valid document x and every non-nil Options  *)
(* without a CompareNumbers override, Compare(x, x, opts) returns          *)
(* FullMatch.                                                              *)
(***************************************************************************)
C2_Reflexive ==
    pc = "done" /\ BothValid /\ a = b
        /\ opts.ptr # "nil" /\ opts.CompareNumbers = "nil"
    => ret.how = "return" /\ ret.diff = FullMatch

(***************************************************************************)
(* C3.  If the second document differs from the first only in that keys of *)
(* the first are absent from it and arrays of the first have extra         *)
(* trailing elements, every value present on both sides being equal (two   *)
(* numbers: equal for the number comparison of the options), a call that   *)
(* returns returns SupersetMatch, and the text opens the Removed tag once  *)
(* for each such key or element, in the order of the walk, right before    *)
(* the key or the start of the element; a scalar value printed without     *)
(* type is followed by the end of the tag.                                 *)
(***************************************************************************)
\* The fragment a scalar is written as.
ScalarFrag(v) ==
    CASE v.kind = "bool" -> Raw(IF v.b THEN "true" ELSE "false")
      [] v.kind = "number" -> Raw(v.tok)
      [] v.kind = "string" -> Quote(v.s)
      [] OTHER -> Raw("null")

IsContainer(v) == v.kind \in {"array", "object"}

\* What is expected after the Begin of the Removed tag for a removed value
\* v written after the fragments kf of its key.
RemovedSpan(o, kf, v) ==
    IF IsContainer(v) THEN kf \o <<Raw(IF v.kind = "array" THEN "[" ELSE "{")>>
    ELSE kf \o <<ScalarFrag(v)>>
            \o (IF o.PrintTypes THEN <<>> ELSE <<Raw(o.Removed.End)>>)

\* The removals of y from x in the order of the walk, each as the span
\* expected for it.
RECURSIVE Removals(_, _, _)
RECURSIVE SliceRemovals(_, _, _, _)
RECURSIVE MapRemovals(_, _, _, _, _)
Removals(o, x, y) ==
    IF x.kind = "array" /\ y.kind = "array"
    THEN SliceRemovals(o, x.elems, y.elems, 1)
    ELSE IF x.kind = "object" /\ y.kind = "object"
    THEN MapRemovals(o, x.fields, y.fields, SortStrings(DOMAIN x.fields), 1)
    ELSE <<>>

SliceRemovals(o, xs, ys, i) ==
    IF i > Len(xs) THEN <<>>
    ELSE (IF i <= Len(ys) THEN Removals(o, xs[i], ys[i])
          ELSE <<RemovedSpan(o, <<>>, xs[i])>>)
         \o SliceRemovals(o, xs, ys, i + 1)

MapRemovals(o, xf, yf, ks, i) ==
    IF i > Len(ks) THEN <<>>
    ELSE (IF ks[i] \in DOMAIN yf THEN Removals(o, xf[ks[i]], yf[ks[i]])
          ELSE <<RemovedSpan(o, <<Quote(ks[i]), Raw(": ")>>, xf[ks[i]])>>)
         \o MapRemovals(o, xf, yf, ks, i + 1)

\* y is x less some keys and some trailing elements.
RECURSIVE Trimmed(_, _, _)
Trimmed(o, x, y) ==
    IF x.kind = "array" /\ y.kind = "array"
    THEN /\ Len(y.elems) <= Len(x.elems)
         /\ \A i \in 1..Len(y.elems) : Trimmed(o, x.elems[i], y.elems[i])
    ELSE IF x.kind = "object" /\ y.kind = "object"
    THEN /\ DOMAIN y.fields \subseteq DOMAIN x.fields
         /\ \A k \in DOMAIN y.fields : Trimmed(o, x.fields[k], y.fields[k])
    ELSE IF x.kind = "number" /\ y.kind = "number"
    THEN compareNumbers([opts |-> o], x.tok, y.tok)
    ELSE x = y

\* The positions of fragment f in text t, in increasing order.
Positions(t, f) == SelectSeq([i \in 1..Len(t) |-> i], LAMBDA i : t[i] = f)

\* Text t opens the Removed tag of o once for each span of rs, in order,
\* and each span follows its opening.
OpensRemoved(o, t, rs) ==
    LET at == Positions(t, Raw(o.Removed.Begin))
    IN  /\ Len(at) = Len(rs)
        /\ \A j \in 1..Len(rs) :
              /\ at[j] + Len(rs[j]) <= Len(t)
              /\ SubSeq(t, at[j] + 1, at[j] + Len(rs[j])) = rs[j]

\* The second document is the first less at least one key or element.
OnlyRemovals ==
    HasReturned /\ BothValid /\ Trimmed(opts, a, b) /\ Removals(opts, a, b) # <<>>

AddsTo(x, y) ==
    \/ x.kind = "array" /\ y.kind = "array" /\ Len(y.elems) > Len(x.elems)
    \/ x.kind = "object" /\ y.kind = "object"
          /\ DOMAIN y.fields \ DOMAIN x.fields # {}

HasAdded(x, y) == \E p \in Reached(x, y) : AddsTo(p[1], p[2])

\* C4: a call on documents where the second adds a key or an index returns
\* NoMatch.
C4_AddedIsNoMatch ==
    HasReturned /\ BothValid /\ HasAdded(a, b) => ret.diff = NoMatch

\* A call returned NoMatch for a second document that only adds, below the
\* root, the presence marker to an empty array.
C4_Witness ==
    /\ HasReturned /\ BothValid
    /\ ret.diff = NoMatch
    /\ ~AddsTo(a, b)
    /\ \E p \in Reached(a, b) :
          /\ p[1] = Array(<<>>)
          /\ p[2] = Array(<<String(PresenceMarker)>>)
    /\ ctx.reports = <<NoMatch>>

(***************************************************************************)
(* C5.  Asymmetry: for all valid documents a and b, if Compare(a, b, opts) *)
(* returns SupersetMatch then Compare(b, a, opts) returns NoMatch.         *)
(***************************************************************************)
C5_SupersetIsAsymmetric ==
    HasReturned /\ BothValid /\ ret.diff = SupersetMatch
    => \A iter \in IterOrders :
          /\ Walk(b, a, opts, iter).ret.how = "return"
          /\ Walk(b, a, opts, iter).ret.diff = NoMatch

\* A call returned SupersetMatch for removals at the root and below it.
C5_Witness ==
    /\ HasReturned /\ BothValid
    /\ ret.diff = SupersetMatch
    /\ Len(ctx.reports) >= 2
    /\ \E p \in Reached(a, b) : p # <<a, b>> /\ AddsTo(p[2], p[1])
    /\ AddsTo(b, a)
    /\ \A iter \in IterOrders : Walk(b, a, opts, iter).ret.diff = NoMatch

(***************************************************************************)
(* C6.  Decode failures are terminal and classified exactly: both inputs   *)
(* malformed gives BothArgsAreInvalidJson, only the first malformed gives  *)
(* FirstArgIsInvalidJson, only the second gives SecondArgIsInvalidJson,    *)
(* each with its fixed message, and the comparator is not run (no context, *)
(* no report); when both inputs decode, the verdict returned is FullMatch, *)
(* SupersetMatch or NoMatch.                                               *)
(***************************************************************************)
C6_DecodeFailuresClassified ==
    pc = "done" =>
       /\ DecodeErr(a) /\ DecodeErr(b)
             => /\ ret = Returned(BothArgsAreInvalidJson,
                                  <<Raw("both arguments are invalid json")>>)
                /\ ctx = NoContext
       /\ DecodeErr(a) /\ ~DecodeErr(b)
             => /\ ret = Returned(FirstArgIsInvalidJson,
                                  <<Raw("first argument is invalid json")>>)
                /\ ctx = NoContext
       /\ ~DecodeErr(a) /\ DecodeErr(b)
             => /\ ret = Returned(SecondArgIsInvalidJson,
                                  <<Raw("second argument is invalid json")>>)
                /\ ctx = NoContext
       /\ BothValid /\ ret.how = "return"
             => ret.diff \in {FullMatch, SupersetMatch, NoMatch}

\* A call returned FirstArgIsInvalidJson: only its first argument is
\* malformed.
C6_Witness ==
    /\ pc = "done"
    /\ DecodeErr(a) /\ ~DecodeErr(b)
    /\ ret.diff = FirstArgIsInvalidJson
    /\ ctx.reports = <<>>

(***************************************************************************)
(* C7.  Options are optional: Compare(a, b, nil) on two valid documents    *)
(* returns a verdict and a text, those of the call with an Options value   *)
(* whose fields are all zero (literal number equality, nothing elided, no  *)
(* type annotations).                                                      *)
(***************************************************************************)
C7_NilOptionsAreDefaults ==
    pc = "done" /\ BothValid /\ opts.ptr = "nil"
    => /\ ret.how = "return"
       /\ \E iter \in IterOrders : ret = Walk(a, b, ZeroOptions, iter).ret

(***************************************************************************)
(* C8.  Presence assertion: a node of the second document that is the      *)
(* string "<<PRESENCE>>" matches whatever non-null value the first         *)
(* document holds there, so a second document that is the first with some  *)
(* non-null nodes replaced by the marker gives FullMatch.                  *)
(***************************************************************************)
\* y is x with some nodes that are not null replaced by the marker.
RECURSIVE PresenceOf(_, _)
PresenceOf(x, y) ==
    IF y = String(PresenceMarker) THEN x.kind # "null"
    ELSE IF x.kind = "array" /\ y.kind = "array"
    THEN /\ Len(x.elems) = Len(y.elems)
         /\ \A i \in 1..Len(x.elems) : PresenceOf(x.elems[i], y.elems[i])
    ELSE IF x.kind = "object" /\ y.kind = "object"
    THEN /\ DOMAIN x.fields = DOMAIN y.fields
         /\ \A k \in DOMAIN x.fields : PresenceOf(x.fields[k], y.fields[k])
    ELSE x = y

\* C8: the marker on the second side matches any value that is not null.
C8_PresenceMatches ==
    HasReturned /\ BothValid /\ opts.CompareNumbers = "nil" /\ PresenceOf(a, b)
    => ret.diff = FullMatch

MarkerFirst(x, y) ==
    \E p \in Reached(x, y) :
       /\ p[1] = String(PresenceMarker)
       /\ p[2].kind = "string"
       /\ p[2] # p[1]

\* The walk reaches the marker on both sides.
MarkerBoth(x, y) ==
    <<String(PresenceMarker), String(PresenceMarker)>> \in Reached(x, y)

\* C10: the marker on the first side is compared as any other string.
C10_MarkerFirstIsText ==
    HasReturned /\ BothValid
    => /\ MarkerFirst(a, b) => ret.diff = NoMatch
       /\ a = b /\ MarkerBoth(a, b) /\ opts.CompareNumbers = "nil"
             => ret.diff = FullMatch

\* A call returned NoMatch for the marker on the first side against
\* "hello" below the root, the only report of the walk.
C10_Witness ==
    /\ HasReturned /\ BothValid
    /\ <<String(PresenceMarker), String("hello")>> \in Reached(a, b)
    /\ a # String(PresenceMarker)
    /\ ret.diff = NoMatch
    /\ ctx.reports = <<NoMatch>>

(***************************************************************************)
(* C11.  Numbers are compared by their literal token by default, so two    *)
(* tokens of the same value spelled differently (1 and 1.0) give NoMatch;  *)
(* when Options.CompareNumbers is set the predicate alone decides a pair   *)
(* of numbers, so the override of TestCompareFloatsWithEpsilon, which      *)
(* parses both tokens, gives FullMatch for 1 against 1.0.                  *)
(***************************************************************************)
\* The walk reaches a pair of numbers the options' comparison rejects.
NumbersDiffer(o, x, y) ==
    \E p \in Reached(x, y) :
       /\ p[1].kind = "number" /\ p[2].kind = "number"
       /\ IF o.CompareNumbers = "nil" THEN p[1].tok # p[2].tok
          ELSE ~CallCompareNumbers(o.CompareNumbers, p[1].tok, p[2].tok)

C11_NumbersByTokenOrOverride ==
    HasReturned /\ BothValid
    => /\ NumbersDiffer(opts, a, b) => ret.diff = NoMatch
       /\ a.kind = "number" /\ b.kind = "number" /\ opts.CompareNumbers = "nil"
             => (ret.diff = FullMatch <=> a.tok = b.tok)
       /\ a.kind = "number" /\ b.kind = "number" /\ opts.CompareNumbers = "epsilon"
             => (ret.diff = FullMatch <=> EpsilonCompare(a.tok, b.tok))

\* A call with the override returned FullMatch for 1 against 1.0, two
\* tokens the default comparison tells apart.
C11_Witness ==
    /\ HasReturned /\ BothValid
    /\ a = Number("1") /\ b = Number("1.0")
    /\ opts.CompareNumbers = "epsilon"
    /\ ret.diff = FullMatch

(***************************************************************************)
(* C12.  A pair of values of different JSON kinds present on both sides,   *)
(* the second not being the presence marker, contributes NoMatch: exactly  *)
(* one side null, array against object, number against boolean, and a     *)
(* number against a string of the same characters, in either order.  A     *)
(* call whose walk reaches such a pair and returns, returns NoMatch.       *)
(***************************************************************************)
\* The walk reaches two values of different JSON kinds, the second not the
\* marker.
KindsDiffer(x, y) ==
    \E p \in Reached(x, y) :
       p[1].kind # p[2].kind /\ p[2] # String(PresenceMarker)

C12_KindMismatchIsNoMatch ==
    HasReturned /\ BothValid /\ KindsDiffer(a, b) => ret.diff = NoMatch

\* A call returned NoMatch for the string "1" against the number 1.
C12_Witness ==
    /\ HasReturned /\ BothValid
    /\ a = String("1") /\ b = Number("1")
    /\ ret.diff = NoMatch
    /\ ctx.reports = <<NoMatch>>

(***************************************************************************)
(* C13.  Superset means subset containment: whenever the second document   *)
(* is obtained from the first by deleting one or more object keys and/or   *)
(* array elements at any position, changing nothing else, Compare returns  *)
(* SupersetMatch.                                                          *)
(***************************************************************************)
\* The strictly increasing maps of 1..m into 1..n.
Embeddings(m, n) ==
    {f \in [1..m -> 1..n] : \A i, j \in 1..m : i < j => f[i] < f[j]}

\* y is x less some keys and some elements, at any position.
RECURSIVE Contains(_, _)
Contains(x, y) ==
    IF x.kind = "array" /\ y.kind = "array"
    THEN \E f \in Embeddings(Len(y.elems), Len(x.elems)) :
            \A i \in 1..Len(y.elems) : Contains(x.elems[f[i]], y.elems[i])
    ELSE IF x.kind = "object" /\ y.kind = "object"
    THEN /\ DOMAIN y.fields \subseteq DOMAIN x.fields
         /\ \A k \in DOMAIN y.fields : Contains(x.fields[k], y.fields[k])
    ELSE x = y

Callable(o) ==
    /\ o.ptr = "set"
    /\ o.SkipMatches
          => o.SkippedSliceString # "nil" /\ o.SkippedKeysString # "nil"

C14_MatchIsElided ==
    pc = "done" /\ BothValid /\ Callable(opts) /\ opts.SkipMatches
        /\ opts.CompareNumbers = "nil" /\ a = b
    => ret.how = "return" /\ ret.text = <<>>

(***************************************************************************)
(* C15.  With SkipMatches enabled and summary callbacks configured, in     *)
(* every array or object that contains a difference each maximal run of n  *)
(* non-differing elements (keys) is rendered as exactly one Skipped-tagged *)
(* summary carrying the count n, the count restarting after each differing *)
(* element: the summaries of the text are, in order, those of the runs.    *)
(***************************************************************************)
\* x and y have no difference for the number comparison of o.
RECURSIVE Same(_, _, _)
Same(o, x, y) ==
    IF x.kind = "array" /\ y.kind = "array"
    THEN /\ Len(x.elems) = Len(y.elems)
         /\ \A i \in 1..Len(x.elems) : Same(o, x.elems[i], y.elems[i])
    ELSE IF x.kind = "object" /\ y.kind = "object"
    THEN /\ DOMAIN x.fields = DOMAIN y.fields
         /\ \A k \in DOMAIN x.fields : Same(o, x.fields[k], y.fields[k])
    ELSE IF x.kind = "number" /\ y.kind = "number"
    THEN compareNumbers([opts |-> o], x.tok, y.tok)
    ELSE x = y

\* The summary of a run of n elements, none for an empty run.
RunOf(o, kind, n) ==
    IF n = 0 THEN <<>>
    ELSE <<<<Raw(o.Skipped.Begin),
             CallSkippedString(IF kind = "slice" THEN o.SkippedSliceString
                               ELSE o.SkippedKeysString, kind, n),
             Raw(o.Skipped.End)>>>>

\* The summaries expected for x against y in the order of the walk: the
\* runs of non-differing elements of every container with a difference.
RECURSIVE Runs(_, _, _)
RECURSIVE SliceRuns(_, _, _, _, _)
RECURSIVE MapRuns(_, _, _, _, _, _)
Runs(o, x, y) ==
    IF Same(o, x, y) THEN <<>>
    ELSE IF x.kind = "array" /\ y.kind = "array"
    THEN SliceRuns(o, x.elems, y.elems, 1, 0)
    ELSE IF x.kind = "object" /\ y.kind = "object"
    THEN MapRuns(o, x.fields, y.fields, UnionKeys(x.fields, y.fields), 1, 0)
    ELSE <<>>

SliceRuns(o, xs, ys, i, n) ==
    IF i > Max(Len(xs), Len(ys)) THEN RunOf(o, "slice", n)
    ELSE IF i <= Len(xs) /\ i <= Len(ys)
    THEN IF Same(o, xs[i], ys[i])
         THEN SliceRuns(o, xs, ys, i + 1, n + 1)
         ELSE RunOf(o, "slice", n) \o Runs(o, xs[i], ys[i])
                 \o SliceRuns(o, xs, ys, i + 1, 0)
    ELSE RunOf(o, "slice", n) \o SliceRuns(o, xs, ys, i + 1, 0)

MapRuns(o, xf, yf, ks, i, n) ==
    IF i > Len(ks) THEN RunOf(o, "keys", n)
    ELSE IF ks[i] \in DOMAIN xf /\ ks[i] \in DOMAIN yf
    THEN IF Same(o, xf[ks[i]], yf[ks[i]])
         THEN MapRuns(o, xf, yf, ks, i + 1, n + 1)
         ELSE RunOf(o, "keys", n) \o Runs(o, xf[ks[i]], yf[ks[i]])
                 \o MapRuns(o, xf, yf, ks, i + 1, 0)
    ELSE RunOf(o, "keys", n) \o MapRuns(o, xf, yf, ks, i + 1, 0)

\* The summaries of text t: at every Begin of the Skipped tag of o, the
\* three fragments from there on.
Summaries(o, t) ==
    LET at == Positions(t, Raw(o.Skipped.Begin))
    IN  [j \in 1..Len(at) |-> SubSeq(t, at[j], Min(at[j] + 2, Len(t)))]

C15_OneSummaryPerRun ==
    HasReturned /\ BothValid /\ opts.SkipMatches
        /\ opts.SkippedSliceString # "nil" /\ opts.SkippedKeysString # "nil"
        /\ opts.Skipped.Begin # ""
    => Summaries(opts, ret.text) = Runs(opts, a, b)

(***************************************************************************)
(* C16.  With SkipMatches enabled and no summary callback configured       *)
(* (nil), Compare still returns normally: the runs of matching elements or *)
(* keys are dropped from the output without a summary.                     *)
(***************************************************************************)
C16_NilCallbackDropsRuns ==
    pc = "done" /\ BothValid /\ opts.ptr = "set" /\ opts.SkipMatches
        /\ opts.SkippedSliceString = "nil" /\ opts.SkippedKeysString = "nil"
    => /\ ret.how = "return"
       /\ \A i \in DOMAIN ret.text : ret.text[i] # Raw(opts.Skipped.Begin)

(***************************************************************************)
(* C17.  Determinism of the output: for a given pair of documents and      *)
(* Options every run of Compare returns the same verdict and the same      *)
(* text, whatever the order in which the runtime ranges over a map; the    *)
(* keys of an object are emitted in lexicographic order, those of an       *)
(* object inside a removed or added value included.                        *)
(***************************************************************************)
C17_SameOutputEveryRun ==
    pc = "done" /\ BothValid
    => \A iter \in IterOrders : Walk(a, b, opts, iter).ret = ret


(***************************************************************************)
(* The text as one string, and the pretty-print of a document: keys in     *)
(* lexicographic order, one element per line behind the prefix and one     *)
(* indentation per level, empty containers as [] and {}.                   *)
(***************************************************************************)
FragString(f) ==
    IF f[1] = "quote" THEN "\"" \o f[2] \o "\""
    ELSE IF f[1] = "raw" THEN f[2]
    ELSE f[1] \o f[2]

RECURSIVE Flatten(_)
Flatten(t) ==
    IF t = <<>> THEN "" ELSE FragString(Head(t)) \o Flatten(Tail(t))

RECURSIVE Repeat(_, _)
Repeat(s, n) == IF n <= 0 THEN "" ELSE s \o Repeat(s, n - 1)

LineStart(o, depth) == "\n" \o o.Prefix \o Repeat(o.Indent, depth)

RECURSIVE Pretty(_, _, _)
RECURSIVE PrettyElems(_, _, _, _)
RECURSIVE PrettyFields(_, _, _, _, _)

PrettyElems(o, es, i, depth) ==
    LineStart(o, depth) \o Pretty(o, es[i], depth)
    \o (IF i < Len(es) THEN "," \o PrettyElems(o, es, i + 1, depth) ELSE "")

PrettyFields(o, fs, ks, i, depth) ==
    LineStart(o, depth) \o "\"" \o ks[i] \o "\": " \o Pretty(o, fs[ks[i]], depth)
    \o (IF i < Len(ks) THEN "," \o PrettyFields(o, fs, ks, i + 1, depth)
        ELSE "")

Pretty(o, v, depth) ==
    CASE v.kind = "bool" -> IF v.b THEN "true" ELSE "false"
      [] v.kind = "number" -> v.tok
      [] v.kind = "string" -> "\"" \o v.s \o "\""
      [] v.kind = "array" ->
            IF v.elems = <<>> THEN "[]"
            ELSE "[" \o PrettyElems(o, v.elems, 1, depth + 1)
                 \o LineStart(o, depth) \o "]"
      [] v.kind = "object" ->
            IF DOMAIN v.fields = {} THEN "{}"
            ELSE "{" \o PrettyFields(o, v.fields, SortStrings(DOMAIN v.fields),
                                     1, depth + 1)
                 \o LineStart(o, depth) \o "}"
      [] OTHER -> "null"

NoMarkers(o) == \A n \in TagNames : TagOf(o, n) = Tag("", "")

\* C18: for a FullMatch pair compared without SkipMatches, without
\* PrintTypes and with empty tag markers, the text is the pretty-print of
\* the first document.
C18_FullMatchRoundTrip ==
    HasReturned /\ BothValid /\ ret.diff = FullMatch
    /\ ~opts.SkipMatches /\ ~opts.PrintTypes /\ NoMarkers(opts)
    => Flatten(ret.text) = Pretty(opts, a, 0)

\* A pair of equal arrays holding an object of two keys and an empty array,
\* printed behind a prefix and an indentation.
C18_Witness ==
    /\ HasReturned /\ BothValid /\ ret.diff = FullMatch
    /\ opts = PlainOptions
    /\ a.kind = "array" /\ Len(a.elems) = 2
    /\ a.elems[1].kind = "object" /\ a.elems[2] = Array(<<>>)
    /\ Flatten(ret.text) =
         "[\n>   {\n>     \"a\": 1,\n>     \"b\": \"hello\"\n>   },\n>   []\n> ]"

\* Two Options that differ in rendering fields only: every field of Options
\* but CompareNumbers is one.
RenderingOnly(o1, o2) ==
    o1.ptr = "set" /\ o2.ptr = "set" /\ o1.CompareNumbers = o2.CompareNumbers

\* Both calls hand back a verdict, and the same one.
SameVerdict(r1, r2) ==
    r1.how = "return" /\ r2.how = "return" /\ r1.diff = r2.diff

\* C19: the verdict depends only on the two documents and on
\* CompareNumbers: Options that differ in the tags, Prefix, Indent,
\* PrintTypes, ChangedSeparator, SkipMatches or the summary callbacks yield
\* the same verdict for every pair of valid documents.
C19_VerdictIgnoresRendering ==
    pc = "done" /\ BothValid =>
        \A o \in OptionsSet :
            RenderingOnly(opts, o) =>
                \A iter \in IterOrders :
                    SameVerdict(ret, Walk(a, b, o, iter).ret)

(***************************************************************************)
(* Concurrent calls of Compare on one shared Options value.  Under this    *)
(* specification a, b, pc, ctx, ret and todo hold one entry per call and   *)
(* opts is the Options all calls were given.  A call over two arrays or    *)
(* two objects is taken one round of its loop at a time, so the rounds of  *)
(* the calls interleave; between its steps the call keeps its context in   *)
(* ctx and the locals of printDiff (buf, noDiffSpan, seenDiff, the loop    *)
(* index, and the order its maps iterate in) in todo.  met records that    *)
(* the call ran a round while another call was inside its loop.            *)
(***************************************************************************)
Calls == {1, 2}

\* ctx := context{opts: opts}: the context is a local of the call.
ContextOfShared(call) == 1

ContextOf(call) == call

ConcDocs ==
    {String("hello"),
     Array(<<Number("1"), String("hello")>>),
     Array(<<Object([k \in Keys |-> IF k = "a" THEN Number("1")
                                    ELSE String("hello")]),
             Array(<<>>)>>),
     Object([k \in Keys |-> IF k = "a" THEN Number("1") ELSE String("hello")]),
     Object([k \in {KeyOrder[1]} |-> Number("1")])}

ConcOptionsSet == {TestDiffStringOptions, NormalTagOptions}

ConcTodo == [buf |-> <<>>, n |-> 0, seen |-> FALSE, i |-> 0, iter |-> <<>>,
             met |-> FALSE]

\* printDiff enters one of its loops.
Loops(o, x, y) ==
    o.ptr = "set" /\ x.kind = y.kind /\ x.kind \in {"array", "object"}

\* max, or len(keys).
Rounds(x, y) ==
    IF x.kind = "array" THEN Max(Len(x.elems), Len(y.elems))
    ELSE Len(UnionKeys(x.fields, y.fields))

LoopStart(w, x, y) ==
    IF x.kind = "array" THEN SliceStart(w, x, y) ELSE MapStart(w, x, y)

\* The i-th round of the loop.
Round(st, x, y, i) ==
    IF x.kind = "array"
    THEN EndRound(st, SliceBody(st, x.elems, y.elems, i),
                  i = Max(Len(x.elems), Len(y.elems)), "slice")
    ELSE EndRound(st, MapBody(st, x.fields, y.fields,
                              UnionKeys(x.fields, y.fields)[i]),
                  i = Len(UnionKeys(x.fields, y.fields)), "keys")

\* Past the loop.
LoopEnd(st, x) == CloseExit(st, x, IF x.kind = "array" THEN "]" ELSE "}")

\* The loop state of a call, from its context c and its locals t.
LoopState(c, t) == [w |-> Writer(c, t.buf), n |-> t.n, seen |-> t.seen]

\* return ctx.diff, buf.String(), or the panic.
Outcome(r) == IF r.ctx.panicked THEN Panicked ELSE Returned(r.ctx.diff, r.out)

\* The call keeps the loop state st until its next step.
ParkLoop(call, st, idx, iter, met) ==
    /\ ctx' = [ctx EXCEPT ![ContextOf(call)] = st.w.ctx]
    /\ todo' = [todo EXCEPT ![call] =
                    [buf |-> st.w.buf, n |-> st.n, seen |-> st.seen,
                     i |-> idx, iter |-> iter, met |-> met]]

\* The call is over, r being what the root printDiff returned.
ParkDone(call, r) ==
    /\ ctx' = [ctx EXCEPT ![ContextOf(call)] = r.ctx]
    /\ ret' = [ret EXCEPT ![call] = Outcome(r)]
    /\ pc' = [pc EXCEPT ![call] = "done"]

InitConc ==
    /\ a \in [Calls -> ConcDocs]
    /\ b \in [Calls -> ConcDocs]
    /\ opts \in ConcOptionsSet
    /\ pc = [call \in Calls |-> "call"]
    /\ ctx = [call \in Calls |-> NoContext]
    /\ ret = [call \in Calls |-> NotReturned]
    /\ todo = [call \in Calls |-> ConcTodo]

\* Compare creates its context and printDiff runs up to its loop, or to its
\* end when the root is not a pair of arrays or of objects.
ConcCall(call) ==
    /\ pc[call] = "call"
    /\ \E iter \in IterOrders :
          IF Loops(opts, a[call], b[call])
          THEN /\ ParkLoop(call,
                           LoopStart(Writer(NewContext(opts, iter), <<>>),
                                     a[call], b[call]),
                           1, iter, FALSE)
               /\ pc' = [pc EXCEPT ![call] = "loop"]
               /\ UNCHANGED ret
          ELSE /\ ParkDone(call,
                           printDiff(NewContext(opts, iter), a[call], b[call]))
               /\ todo' = [todo EXCEPT ![call].iter = iter]
    /\ UNCHANGED <<a, b, opts>>

\* One round of the loop of the root.
ConcRound(call) ==
    /\ pc[call] = "loop"
    /\ todo[call].i <= Rounds(a[call], b[call])
    /\ ParkLoop(call,
                Round(LoopState(ctx[ContextOf(call)], todo[call]),
                      a[call], b[call], todo[call].i),
                todo[call].i + 1, todo[call].iter,
                todo[call].met \/ \E other \in Calls \ {call} :
                                     pc[other] = "loop")
    /\ UNCHANGED <<a, b, opts, pc, ret>>

\* The loop is over: the closing bracket, and Compare returns.
ConcReturn(call) ==
    /\ pc[call] = "loop"
    /\ todo[call].i > Rounds(a[call], b[call])
    /\ ParkDone(call,
                LoopEnd(LoopState(ctx[ContextOf(call)], todo[call]), a[call]))
    /\ UNCHANGED <<a, b, opts, todo>>

NextConc ==
    \E call \in Calls : ConcCall(call) \/ ConcRound(call) \/ ConcReturn(call)

SpecConc == InitConc /\ [][NextConc]_vars

\* C20: calls are isolated: no step of a call writes to the Options, and
\* whatever the interleaving of the calls that share them, a call hands
\* back the verdict and the text it hands back when run alone.
C20_CallsAreIsolated ==
    /\ [](\A call \in Calls :
            pc[call] = "done" =>
                ret[call] = Walk(a[call], b[call], opts, todo[call].iter).ret)
    /\ [][opts' = opts]_vars

\* Both calls ran rounds while the other was inside its loop, on different
\* documents, and came to different verdicts.
C20_Witness ==
    /\ \A call \in Calls :
          pc[call] = "done" /\ todo[call].met /\ ret[call].how = "return"
    /\ a[1] # a[2]
    /\ ret[1].diff = NoMatch
    /\ ret[2].diff = FullMatch

(***************************************************************************)
(* The variant of the library in src/unnamed/part_000, the one with the    *)
(* Skip predicate.  Its definitions carry the suffix _000 where the name   *)
(* is taken already.  There the context owns the one buffer, newline       *)
(* closes the open tag before the line break and opens it again after the  *)
(* indentation, and printDiff takes the path of the node and a closure     *)
(* beforePrint that prints the headers of the enclosing containers when    *)
(* the node is the first one to print.  The closures are modelled by       *)
(* ctx.frames, one frame per enclosing container from the root inwards:    *)
(* printedHeader, the bracket, max == 0, originalLevel, and the key of the *)
(* child being visited.  A path is the sequence of the "." and keys it is  *)
(* made of; no key of the model holds a dot.                               *)
(***************************************************************************)
Options_000(skipMatches, skip, tags) ==
    [ptr |-> "set",
     Normal |-> IF tags THEN Tag("(N:", ":N)") ELSE Tag("", ""),
     Added |-> IF tags THEN Tag("(A:", ":A)") ELSE Tag("", ""),
     Removed |-> IF tags THEN Tag("(R:", ":R)") ELSE Tag("", ""),
     Changed |-> IF tags THEN Tag("(C:", ":C)") ELSE Tag("", ""),
     Prefix |-> "", Indent |-> " ", PrintTypes |-> FALSE,
     ChangedSeparator |-> " => ", CompareNumbers |-> "nil",
     SkipMatches |-> skipMatches, Skip |-> skip]

\* strings.TrimLeft(path, ".")
RECURSIVE TrimLeftDots(_)
TrimLeftDots(path) ==
    IF path # <<>> /\ Head(path) = "." THEN TrimLeftDots(Tail(path)) ELSE path

\* The string a path stands for.
RECURSIVE PathString(_)
PathString(path) ==
    IF path = <<>> THEN "" ELSE Head(path) \o PathString(Tail(path))

\* ctx.opts.Skip(path, a, b) for the predicates of the model: one that
\* excludes the path "a", one that excludes "a.b", one that excludes all.
CallSkip(f, path, x, y) ==
    CASE f = "a" -> path = "a"
      [] f = "a.b" -> path = "a.b"
      [] f = "all" -> TRUE

shouldSkip(c, path, x, y) ==
    IF path # <<>> /\ c.opts.Skip # "nil"
    THEN CallSkip(c.opts.Skip, PathString(TrimLeftDots(path)), x, y)
    ELSE FALSE

NewContext_000(o, iter) ==
    [opts |-> o, level |-> 0, lastTag |-> "nil", diff |-> FullMatch,
     panicked |-> FALSE, iter |-> iter, reports |-> <<>>, frames |-> <<>>]

\* if ctx.lastTag != nil { ctx.buf.WriteString(ctx.lastTag.End) }
CloseTag(w) ==
    IF w.ctx.lastTag # "nil"
    THEN WriteString(w, Raw(TagOf(w.ctx.opts, w.ctx.lastTag).End))
    ELSE w

\* if ctx.lastTag != nil { ctx.buf.WriteString(ctx.lastTag.Begin) }
ReopenTag(w) ==
    IF w.ctx.lastTag # "nil"
    THEN WriteString(w, Raw(TagOf(w.ctx.opts, w.ctx.lastTag).Begin))
    ELSE w

newline_000(w, s) == ReopenTag(WriteLineStart(CloseTag(WriteString(w, Raw(s)))))

AfterElem_000(w, isLast) ==
    IF ~isLast THEN newline_000(w, ",") ELSE newline_000(LevelDown(w), "")

OpenBracket_000(w, n, bracket) ==
    IF n = 0 THEN WriteString(w, Raw(bracket))
    ELSE newline_000(LevelUp(w), bracket)

RECURSIVE writeValue_000(_, _, _)
RECURSIVE writeSliceElems_000(_, _, _)
RECURSIVE writeMapElems_000(_, _, _, _)

writeSliceNext_000(w, vv, i) == Then(w, writeSliceElems_000(w, vv, i))
writeMapNext_000(w, vv, ks, i) == Then(w, writeMapElems_000(w, vv, ks, i))

writeSliceElems_000(w, vv, i) ==
    IF i > Len(vv) THEN w
    ELSE writeSliceNext_000(
            AfterElem_000(writeValue_000(w, vv[i], TRUE), i = Len(vv)),
            vv, i + 1)

writeMapElems_000(w, vv, ks, i) ==
    IF i > Len(ks) THEN w
    ELSE writeMapNext_000(
            AfterElem_000(writeValue_000(key(w, ks[i]), vv[ks[i]], TRUE),
                          i = Len(ks)),
            vv, ks, i + 1)

writeValueSwitch_000(w, v, full) ==
    CASE v.kind = "bool" ->
            WriteString(w, Raw(IF v.b THEN "true" ELSE "false"))
      [] v.kind = "number" -> WriteString(w, Raw(v.tok))
      [] v.kind = "string" -> WriteString(w, Quote(v.s))
      [] v.kind = "array" ->
            IF full
            THEN WriteString(
                    writeSliceElems_000(OpenBracket_000(w, Len(v.elems), "["),
                                        v.elems, 1),
                    Raw("]"))
            ELSE WriteString(w, Raw("[]"))
      [] v.kind = "object" ->
            IF full
            THEN WriteString(
                    writeMapElems_000(
                        OpenBracket_000(w, Cardinality(DOMAIN v.fields), "{"),
                        v.fields, RangeKeys(w.ctx, v.fields), 1),
                    Raw("}"))
            ELSE WriteString(w, Raw("{}"))
      [] OTHER -> WriteString(w, Raw("null"))

writeValue_000(w, v, full) ==
    writeTypeMaybe(writeValueSwitch_000(w, v, full), v)

writeMismatch_000(w, x, y) ==
    writeValue_000(WriteSeparator(writeValue_000(w, x, FALSE)), y, FALSE)

printMismatch_000(w, x, y) == writeMismatch_000(tag(w, "Changed"), x, y)

\* A container is entered: ctx.level++ when it has elements, and the
\* closure writeHeader with printedHeader = false, originalLevel = ctx.level.
PushFrame(w, bracket, n) ==
    [w EXCEPT !.ctx.frames =
        Append(@, [printed |-> FALSE, bracket |-> bracket, empty |-> n = 0,
                   level |-> w.ctx.level, hasKey |-> FALSE, key |-> ""])]

Enter(w, bracket, n) == PushFrame(IF n > 0 THEN LevelUp(w) ELSE w, bracket, n)

\* The container returns: its closures are gone.
PopFrame(w) ==
    [w EXCEPT !.ctx.frames = SubSeq(@, 1, Len(@) - 1)]

\* The closure handed to the child under key k: writeHeader(); ctx.key(k).
SetKey(w, k) ==
    [w EXCEPT !.ctx.frames[Len(w.ctx.frames)].hasKey = TRUE,
              !.ctx.frames[Len(w.ctx.frames)].key = k]

\* printedHeader = true
MarkPrinted(w, d) == [w EXCEPT !.ctx.frames[d].printed = TRUE]

\* The bracket of writeHeader: at originalLevel when a line break follows.
HeaderBracket(w, d) ==
    IF w.ctx.frames[d].empty
    THEN WriteString(w, Raw(w.ctx.frames[d].bracket))
    ELSE [newline_000([w EXCEPT !.ctx.level = w.ctx.frames[d].level],
                      w.ctx.frames[d].bracket)
            EXCEPT !.ctx.level = w.ctx.level]

\* ctx.key(k) of the closure of frame d, when it has one.
KeyOf(w, d) ==
    IF w.ctx.frames[d].hasKey THEN key(w, w.ctx.frames[d].key) ELSE w

RECURSIVE BeforeFrom(_, _)
RECURSIVE WriteHeaderAt(_, _)

\* writeHeader of frame d (part_000:366-382, 451-467).
WriteHeaderAt(w, d) ==
    IF w.ctx.frames[d].printed THEN w
    ELSE HeaderBracket(tag(BeforeFrom(MarkPrinted(w, d), d - 1), "Normal"), d)

\* beforePrint as frame d hands it to its child; func() {} at the root.
BeforeFrom(w, d) ==
    IF d = 0 THEN w ELSE KeyOf(WriteHeaderAt(w, d), d)

writeHeader(w) == WriteHeaderAt(w, Len(w.ctx.frames))

beforePrint(w) == BeforeFrom(w, Len(w.ctx.frames))

\* What printDiff leaves and the bool it returns.
Had(w, h) == [w |-> w, had |-> h]

MismatchExit_000(w, x, y) ==
    Had(Report(printMismatch_000(beforePrint(w), x, y), NoMatch), TRUE)

\* Both nil (part_000:293-301).
NilMatchExit_000(w, x) ==
    Had(Report(IF ~w.ctx.opts.SkipMatches
               THEN writeValue_000(tag(beforePrint(w), "Normal"), x, FALSE)
               ELSE w,
               FullMatch),
        FALSE)

\* Past the switch (part_000:517-524).
MatchExit_000(w, x) ==
    Had(IF ~w.ctx.opts.SkipMatches
        THEN Report(writeValue_000(tag(beforePrint(w), "Normal"), x, TRUE),
                    FullMatch)
        ELSE w,
        FALSE)

\* An element or a key on one side only.
Only_000(w, v, d) ==
    Had(Report(writeValue_000(w, v, TRUE), d), TRUE)

\* if hadChanges || !ctx.opts.SkipMatches { ctx.tag(&ctx.opts.Normal);
\* ctx.newline(",") or ctx.newline("") }, and gotDifference.
RoundSep(bd, isLast, got) ==
    [w |-> IF bd.had \/ ~bd.w.ctx.opts.SkipMatches
           THEN newline_000(tag(bd.w, "Normal"), IF isLast THEN "" ELSE ",")
           ELSE bd.w,
     got |-> got \/ bd.had]

\* The end of a round (part_000:399-415, 491-507).
RoundTail(bd, isLast, got) ==
    RoundSep([w |-> IF isLast THEN LevelDown(bd.w) ELSE bd.w, had |-> bd.had],
             isLast, got)

\* The closing bracket and the return of a container.
ContainerExit_000(st, x, bracket) ==
    Had(PopFrame(IF st.got \/ ~st.w.ctx.opts.SkipMatches
                 THEN writeTypeMaybe(WriteString(st.w, Raw(bracket)), x)
                 ELSE st.w),
        st.got)

\* if !ctx.opts.SkipMatches { writeHeader() }
LoopStart_000(w) ==
    [w |-> IF ~w.ctx.opts.SkipMatches THEN writeHeader(w) ELSE w,
     got |-> FALSE]

RECURSIVE printDiff_000(_, _, _, _)
RECURSIVE SliceLoop_000(_, _, _, _, _)
RECURSIVE MapLoop_000(_, _, _, _, _, _)

SliceNext_000(st, path, sa, sb, i) == Then(st, SliceLoop_000(st, path, sa, sb, i))
MapNext_000(st, path, ma, mb, keys, i) ==
    Then(st, MapLoop_000(st, path, ma, mb, keys, i))

\* The if-else chain of a round over a slice (part_000:383-398).
SliceBody_000(w, path, sa, sb, i) ==
    IF i <= Len(sa) /\ i <= Len(sb)
    THEN printDiff_000(w, path, sa[i], sb[i])
    ELSE IF i <= Len(sa)
    THEN Only_000(tag(w, "Removed"), sa[i], SupersetMatch)
    ELSE Only_000(tag(w, "Added"), sb[i], NoMatch)

\* The if-else chain of a round over the keys (part_000:470-489).
MapBody_000(w, path, ma, mb, k) ==
    IF k \in DOMAIN ma /\ k \in DOMAIN mb
    THEN printDiff_000(SetKey(w, k), path \o <<".", k>>, ma[k], mb[k])
    ELSE IF k \in DOMAIN ma
    THEN Only_000(key(tag(writeHeader(w), "Removed"), k), ma[k],
                  SupersetMatch)
    ELSE Only_000(key(tag(writeHeader(w), "Added"), k), mb[k], NoMatch)

SliceLoop_000(st, path, sa, sb, i) ==
    IF i > Max(Len(sa), Len(sb)) THEN st
    ELSE SliceNext_000(RoundTail(SliceBody_000(st.w, path, sa, sb, i),
                                 i = Max(Len(sa), Len(sb)), st.got),
                       path, sa, sb, i + 1)

MapLoop_000(st, path, ma, mb, keys, i) ==
    IF i > Len(keys) THEN st
    ELSE MapNext_000(RoundTail(MapBody_000(st.w, path, ma, mb, keys[i]),
                               i = Len(keys), st.got),
                     path, ma, mb, keys, i + 1)

\* case reflect.Slice (part_000:344-421).
SliceCase_000(w, path, x, y) ==
    ContainerExit_000(
        SliceLoop_000(
            LoopStart_000(Enter(w, "[", Max(Len(x.elems), Len(y.elems)))),
            path, x.elems, y.elems, 1),
        x, "]")

\* case reflect.Map (part_000:422-514).
MapCase_000(w, path, x, y) ==
    ContainerExit_000(
        MapLoop_000(
            LoopStart_000(Enter(w, "{", Len(UnionKeys(x.fields, y.fields)))),
            path, x.fields, y.fields, UnionKeys(x.fields, y.fields), 1),
        x, "}")

printDiff_000(w, path, x, y) ==
    IF shouldSkip(w.ctx, path, x, y) THEN Had(w, FALSE)
    ELSE IF x.kind = "null" \/ y.kind = "null"
    THEN IF x.kind = "null" /\ y.kind = "null"
         THEN NilMatchExit_000(w, x)
         ELSE MismatchExit_000(w, x, y)
    ELSE IF Kind(x) # Kind(y) THEN MismatchExit_000(w, x, y)
    ELSE CASE Kind(x) = "Bool" ->
                IF x.b # y.b THEN MismatchExit_000(w, x, y)
                ELSE MatchExit_000(w, x)
           [] Kind(x) = "String" ->
                IF x.kind = "number"
                THEN IF y.kind # "number" \/ ~compareNumbers(w.ctx, x.tok, y.tok)
                     THEN MismatchExit_000(w, x, y)
                     ELSE MatchExit_000(w, x)
                ELSE IF y.kind # "string" \/ x.s # y.s
                     THEN MismatchExit_000(w, x, y)
                     ELSE MatchExit_000(w, x)
           [] Kind(x) = "Slice" -> SliceCase_000(w, path, x, y)
           [] Kind(x) = "Map" -> MapCase_000(w, path, x, y)

\* What Compare returns after the walk (part_000:571-576).
Return_000(r) == Returned(r.w.ctx.diff, CloseTag(r.w).buf)

\* Compare of part_000 on two documents that decode.
Compare_000(av, bv, o, iter) ==
    Return_000(printDiff_000(Writer(NewContext_000(o, iter), <<>>),
                             <<>>, av, bv))

(***************************************************************************)
(* One call of Compare of part_000.                                        *)
(***************************************************************************)
SkipLeaves ==
    {Number("1"), Number("2"), Array(<<Number("1")>>),
     Object([k \in Keys |-> IF k = "a" THEN Number("1") ELSE String("hello")]),
     Object([k \in {KeyOrder[2]} |-> Number("2")])}

SkipElems ==
    {Number("1"),
     Object([k \in Keys |-> IF k = "a" THEN Number("1") ELSE String("hello")]),
     Object([k \in {KeyOrder[1]} |-> Number("2")])}

SkipDocs ==
    {Number("1"), String("hello")}
    \cup {Object(f) : f \in MapsOver(SkipLeaves)}
    \cup {Array(es) : es \in SeqsUpTo(SkipElems, MaxLen)}

SkipOptionsSet ==
    {Options_000(FALSE, "nil", TRUE), Options_000(FALSE, "a", TRUE),
     Options_000(TRUE, "a", TRUE), Options_000(FALSE, "a.b", FALSE),
     Options_000(TRUE, "a.b", FALSE), Options_000(TRUE, "all", FALSE),
     Options_000(FALSE, "all", FALSE)}

InitSkip ==
    /\ a \in SkipDocs \cup {Malformed}
    /\ b \in SkipDocs \cup {Malformed}
    /\ opts \in SkipOptionsSet
    /\ pc = "call"
    /\ ctx = NoContext
    /\ ret = NotReturned
    /\ todo = NoTodo

\* Compare of part_000 decodes both arguments and walks the trees.
CompareValid_000 ==
    /\ pc = "call"
    /\ ~DecodeErr(a) /\ ~DecodeErr(b)
    /\ \E iter \in IterOrders : ret' = Compare_000(a, b, opts, iter)
    /\ pc' = "done"
    /\ UNCHANGED <<a, b, opts, ctx, todo>>

NextSkip == CompareInvalid \/ CompareValid_000

SpecSkip == InitSkip /\ [][NextSkip]_vars

(***************************************************************************)
(* The documents without the nodes the predicate excludes.  keys is the    *)
(* path of a node as the sequence of the object keys that lead to it.      *)
(***************************************************************************)
RECURSIVE JoinDots(_)
JoinDots(keys) ==
    IF keys = <<>> THEN ""
    ELSE IF Len(keys) = 1 THEN keys[1]
    ELSE keys[1] \o "." \o JoinDots(Tail(keys))

\* The predicate is configured and returns true at a non-root path.
Excluded(o, keys, x, y) ==
    keys # <<>> /\ o.Skip # "nil" /\ CallSkip(o.Skip, JoinDots(keys), x, y)

RECURSIVE Pruned(_, _, _, _)
RECURSIVE PrunedElems(_, _, _, _, _)

\* The elements from index i on of two arrays at path keys: the pair of
\* what is left of either side.
PrunedElems(o, keys, xs, ys, i) ==
    IF i > Len(xs) /\ i > Len(ys) THEN <<<<>>, <<>>>>
    ELSE LET rest == PrunedElems(o, keys, xs, ys, i + 1)
             here == IF i <= Len(xs) /\ i <= Len(ys)
                     THEN IF Excluded(o, keys, xs[i], ys[i])
                          THEN <<<<>>, <<>>>>
                          ELSE LET p == Pruned(o, keys, xs[i], ys[i])
                               IN  <<<<p[1]>>, <<p[2]>>>>
                     ELSE IF i <= Len(xs) THEN <<<<xs[i]>>, <<>>>>
                     ELSE <<<<>>, <<ys[i]>>>>
         IN  <<here[1] \o rest[1], here[2] \o rest[2]>>

\* The pair of documents x, y at path keys without the excluded nodes.
Pruned(o, keys, x, y) ==
    IF x.kind = "array" /\ y.kind = "array"
    THEN LET p == PrunedElems(o, keys, x.elems, y.elems, 1)
         IN  <<Array(p[1]), Array(p[2])>>
    ELSE IF x.kind = "object" /\ y.kind = "object"
    THEN LET gone == {k \in DOMAIN x.fields \cap DOMAIN y.fields :
                        Excluded(o, Append(keys, k), x.fields[k], y.fields[k])}
         IN  <<Object([k \in DOMAIN x.fields \ gone |->
                        IF k \in DOMAIN y.fields
                        THEN Pruned(o, Append(keys, k),
                                    x.fields[k], y.fields[k])[1]
                        ELSE x.fields[k]]),
               Object([k \in DOMAIN y.fields \ gone |->
                        IF k \in DOMAIN x.fields
                        THEN Pruned(o, Append(keys, k),
                                    x.fields[k], y.fields[k])[2]
                        ELSE y.fields[k]])>>
    ELSE <<x, y>>

\* Compare of part_000 without a predicate on the pair p.
ComparePair(p, o, iter) ==
    Compare_000(p[1], p[2], [o EXCEPT !.Skip = "nil"], iter)

\* C21: a node the Skip predicate excludes at a non-root path contributes
\* nothing to the verdict and nothing to the text (no key, no value, no
\* separator, no blank line): Compare returns what it returns, without the
\* predicate, for the documents without the excluded nodes.
C21_ExcludedIsAbsent ==
    HasReturned /\ BothValid =>
        \E iter \in IterOrders :
            ret = ComparePair(Pruned(opts, <<>>, a, b), opts, iter)

(***************************************************************************)
(* The streaming entry point.  CompareStreams is not among the sources;    *)
(* it is taken from the specification: it accepts two readable byte        *)
(* sources instead of buffers, decodes them incrementally and is otherwise *)
(* Compare.  A reader yields the bytes of its input in chunks; under this  *)
(* specification a and b are the inputs behind the two readers and todo    *)
(* holds the chunks left on either reader and the reads made so far.       *)
(***************************************************************************)
MaxChunks == 2

\* Compare (jsondiff.go:534-557) as a function of its arguments and of the
\* order its maps iterate in.
Compare(x, y, o, iter) ==
    IF DecodeErr(x) \/ DecodeErr(y) THEN InvalidReturn(x, y)
    ELSE Walk(x, y, o, iter).ret

\* The streaming entry point on two readers that yielded x and y.
CompareStreams(x, y, o, iter) ==
    IF DecodeErr(x) /\ DecodeErr(y)
    THEN Returned(BothArgsAreInvalidJson,
                  <<Raw("both arguments are invalid json")>>)
    ELSE IF DecodeErr(x)
    THEN Returned(FirstArgIsInvalidJson,
                  <<Raw("first argument is invalid json")>>)
    ELSE IF DecodeErr(y)
    THEN Returned(SecondArgIsInvalidJson,
                  <<Raw("second argument is invalid json")>>)
    ELSE LET r == printDiff(NewContext(o, iter), x, y)
         IN  IF r.ctx.panicked THEN Panicked
             ELSE Returned(r.ctx.diff, r.out)

StreamInputs == ConcDocs \cup {Malformed}

StreamOptionsSet ==
    {NilOptions, DefaultConsoleOptions,
     [TestDiffStringOptions EXCEPT !.SkipMatches = TRUE,
                                   !.SkippedSliceString = "nil",
                                   !.SkippedKeysString = "nil"]}

InitStream ==
    /\ a \in StreamInputs
    /\ b \in StreamInputs
    /\ opts \in StreamOptionsSet
    /\ pc = "call"
    /\ ctx = NoContext
    /\ ret = NotReturned
    /\ todo \in [left : [1..2 -> 1..MaxChunks], reads : {0}, iter : {<<>>}]

\* The decoder of one of the readers takes its next chunk.
StreamRead ==
    /\ pc = "call"
    /\ \E r \in 1..2 :
          /\ todo.left[r] > 0
          /\ todo' = [todo EXCEPT !.left[r] = @ - 1, !.reads = @ + 1]
    /\ UNCHANGED <<a, b, opts, pc, ctx, ret>>

\* Both readers are read to the end: the comparison, and the return.
StreamReturn ==
    /\ pc = "call"
    /\ \A r \in 1..2 : todo.left[r] = 0
    /\ \E iter \in IterOrders :
          /\ ret' = CompareStreams(a, b, opts, iter)
          /\ todo' = [todo EXCEPT !.iter = iter]
    /\ pc' = "done"
    /\ UNCHANGED <<a, b, opts, ctx>>

NextStream == StreamRead \/ StreamReturn

SpecStream == InitStream /\ [][NextStream]_vars

TypeFrags(o, v) ==
    IF ~o.PrintTypes THEN <<>>
    ELSE <<Raw(" "),
           Raw(CASE v.kind = "bool" -> "(boolean)"
                 [] v.kind = "number" -> "(number)"
                 [] v.kind = "string" -> "(string)"
                 [] v.kind = "array" -> "(array)"
                 [] v.kind = "object" -> "(object)"
                 [] OTHER -> "(null)")>>

Comma(isLast) == IF isLast THEN <<>> ELSE <<Raw(",")>>

Line(lvl, frags) == [lvl |-> lvl, frags |-> frags]

RECURSIVE ValueLines(_, _, _, _, _, _)
RECURSIVE ElemLines(_, _, _, _, _, _)

\* The lines of value v written at level lvl after the fragments kf, its
\* maps being ranged over in the order iter.
ValueLines(o, v, iter, lvl, kf, isLast) ==
    IF ~IsContainer(v)
    THEN <<Line(lvl, kf \o <<ScalarFrag(v)>> \o TypeFrags(o, v) \o Comma(isLast))>>
    ELSE LET open == Raw(IF v.kind = "array" THEN "[" ELSE "{")
             close == Raw(IF v.kind = "array" THEN "]" ELSE "}")
             ks == IF v.kind = "array" THEN [i \in 1..Len(v.elems) |-> i]
                   ELSE SelectSeq(iter, LAMBDA k : k \in DOMAIN v.fields)
         IN  IF ks = <<>>
             THEN <<Line(lvl, kf \o <<open, close>> \o TypeFrags(o, v)
                              \o Comma(isLast))>>
             ELSE <<Line(lvl, kf \o <<open>>)>>
                  \o ElemLines(o, v, iter, lvl + 1, ks, 1)
                  \o <<Line(lvl, <<close>> \o TypeFrags(o, v) \o Comma(isLast))>>

\* The lines of the elements of container v from the i-th of ks on.
ElemLines(o, v, iter, lvl, ks, i) ==
    IF i > Len(ks) THEN <<>>
    ELSE (IF v.kind = "array"
          THEN ValueLines(o, v.elems[ks[i]], iter, lvl, <<>>, i = Len(ks))
          ELSE ValueLines(o, v.fields[ks[i]], iter, lvl,
                          <<Quote(ks[i]), Raw(": ")>>, i = Len(ks)))
         \o ElemLines(o, v, iter, lvl, ks, i + 1)

\* The line break, the prefix and the indentation before a line at lvl.
RECURSIVE IndentFrags(_, _)
IndentFrags(o, n) == IF n <= 0 THEN <<>> ELSE <<Raw(o.Indent)>> \o IndentFrags(o, n - 1)

LineBreak(o, lvl) == <<Raw("\n"), Raw(o.Prefix)>> \o IndentFrags(o, lvl)

\* The lines ls, each between the Begin and the End of tag t, from line i on.
RECURSIVE WrappedFrom(_, _, _, _)
WrappedFrom(o, t, ls, i) ==
    IF i > Len(ls) THEN <<>>
    ELSE (IF i > 1 THEN LineBreak(o, ls[i].lvl) ELSE <<>>)
         \o <<Raw(t.Begin)>> \o ls[i].frags \o <<Raw(t.End)>>
         \o WrappedFrom(o, t, ls, i + 1)

\* Without the empty strings, which leave no trace in a buffer.
Written(t) == SelectSeq(t, LAMBDA f : f # Raw(""))

\* Text t holds the fragments s in a row.
Occurs(t, s) ==
    \E i \in 0..(Len(t) - Len(s)) : SubSeq(t, i + 1, i + Len(s)) = s

\* The non-empty arrays and objects that one side alone has, with their
\* tag, the fragments of their key and the level they are written at.
RECURSIVE OneSided(_, _, _)
OneSided(x, y, lvl) ==
    IF x.kind = "array" /\ y.kind = "array"
    THEN UNION {OneSided(x.elems[i], y.elems[i], lvl + 1) :
                    i \in 1..Min(Len(x.elems), Len(y.elems))}
         \cup {[name |-> "Removed", kf |-> <<>>, v |-> x.elems[i], lvl |-> lvl + 1] :
                    i \in (Len(y.elems) + 1)..Len(x.elems)}
         \cup {[name |-> "Added", kf |-> <<>>, v |-> y.elems[i], lvl |-> lvl + 1] :
                    i \in (Len(x.elems) + 1)..Len(y.elems)}
    ELSE IF x.kind = "object" /\ y.kind = "object"
    THEN UNION {OneSided(x.fields[k], y.fields[k], lvl + 1) :
                    k \in DOMAIN x.fields \cap DOMAIN y.fields}
         \cup {[name |-> "Removed", kf |-> <<Quote(k), Raw(": ")>>,
                v |-> x.fields[k], lvl |-> lvl + 1] :
                    k \in DOMAIN x.fields \ DOMAIN y.fields}
         \cup {[name |-> "Added", kf |-> <<Quote(k), Raw(": ")>>,
                v |-> y.fields[k], lvl |-> lvl + 1] :
                    k \in DOMAIN y.fields \ DOMAIN x.fields}
    ELSE {}

SeveralLines(v) ==
    \/ v.kind = "array" /\ v.elems # <<>>
    \/ v.kind = "object" /\ DOMAIN v.fields # {}

\* C23: a removed or added value that takes several lines is wrapped in
\* its tag on every line, from the key and the opening bracket to the
\* closing bracket: the tag is closed before each line break and opened
\* again after the indentation.
C23_EveryLineIsTagged ==
    HasReturned /\ BothValid =>
        \A r \in OneSided(a, b, 0) :
            SeveralLines(r.v) =>
                \E iter \in IterOrders :
                    Occurs(ret.text,
                           Written(WrappedFrom(opts, TagOf(opts, r.name),
                                               ValueLines(opts, r.v, iter, r.lvl,
                                                          r.kf, TRUE),
                                               1)))

(***************************************************************************)
(* The tag spans of a text, read left to right.  A tag whose markers are   *)
(* empty leaves no trace in the text.                                      *)
(***************************************************************************)
\* Fragment f is the Begin marker of a tag of o.
IsBegin(o, f) ==
    \E n \in TagNames : TagOf(o, n).Begin # "" /\ f = Raw(TagOf(o, n).Begin)

\* Fragment f is the End marker of a tag of o.
IsEnd(o, f) ==
    \E n \in TagNames : TagOf(o, n).End # "" /\ f = Raw(TagOf(o, n).End)

\* The tags that fragment f opens.
Opened(o, f) ==
    {n \in TagNames : TagOf(o, n).Begin # "" /\ f = Raw(TagOf(o, n).Begin)}

\* The spans of text t from fragment i on are flat and well formed, open
\* being the tags the last Begin marker may have opened, {} when no tag is
\* open.
RECURSIVE WellFormedFrom(_, _, _, _)
WellFormedFrom(o, t, i, open) ==
    IF i > Len(t) THEN open = {}
    ELSE IF IsBegin(o, t[i])
    THEN open = {} /\ WellFormedFrom(o, t, i + 1, Opened(o, t[i]))
    ELSE IF IsEnd(o, t[i])
    THEN /\ \E n \in open : t[i] = Raw(TagOf(o, n).End)
         /\ WellFormedFrom(o, t, i + 1, {})
    ELSE WellFormedFrom(o, t, i + 1, open)

\* C24: the tag spans of the returned text are flat and well formed for
\* every Options, SkipMatches included: every Begin marker is followed by
\* the End marker of its tag before any other Begin marker, no End marker
\* comes while no tag is open, and no tag is open at the end of the text.
C24_SpansAreWellFormed ==
    HasReturned /\ BothValid => WellFormedFrom(opts, ret.text, 1, {})

(***************************************************************************)
(* Verdict and rendering.  A span of a tag shows in the text by the Begin  *)
(* marker ctx.tag writes, so the spans can be told apart when the markers  *)
(* of Added, Removed and Changed are non-empty and differ from every other *)
(* marker of the options.                                                  *)
(***************************************************************************)
DiffTags == {"Added", "Removed", "Changed"}

MarkersTellApart(o) ==
    /\ o.ptr = "set"
    /\ \A n \in DiffTags :
          /\ TagOf(o, n).Begin # ""
          /\ \A m \in TagNames \ {n} : TagOf(o, m).Begin # TagOf(o, n).Begin

\* The text contains at least one span of the tag.
HasSpan(o, t, n) == \E i \in DOMAIN t : t[i] = Raw(TagOf(o, n).Begin)

\* The verdict the spans of the text stand for.
VerdictOfSpans(o, t) ==
    IF HasSpan(o, t, "Changed") \/ HasSpan(o, t, "Added") THEN NoMatch
    ELSE IF HasSpan(o, t, "Removed") THEN SupersetMatch
    ELSE FullMatch

\* C25: for every pair of valid documents, compared under options whose
\* markers tell the spans apart, the verdict is NoMatch exactly when the
\* text contains a Changed or an Added span, SupersetMatch exactly when it
\* contains a Removed span and neither of those, and FullMatch exactly when
\* it contains none of the three.
C25_VerdictAgreesWithSpans ==
    HasReturned /\ BothValid /\ MarkersTellApart(opts) =>
        ret.diff = VerdictOfSpans(opts, ret.text)

\* A mismatch next to a removal, under elision: both spans, NoMatch.
C25_Witness ==
    /\ HasReturned /\ BothValid /\ MarkersTellApart(opts)
    /\ opts.SkipMatches
    /\ HasSpan(opts, ret.text, "Removed")
    /\ HasSpan(opts, ret.text, "Changed")
    /\ ~HasSpan(opts, ret.text, "Added")
    /\ ret.diff = NoMatch
=============================================================================
